---- MODULE Spec2Model ----
(***************************************************************************)
(* The live interview session of the interview copilot: the LiveSession    *)
(* component (src/components/LiveSession.tsx), the live connection of      *)
(* GeminiService (src/unnamed/part_002) and the provider store of          *)
(* ConfigService (src/services/configService.ts).                          *)
(*                                                                         *)
(* The browser runs the program on one event loop.  One action of this     *)
(* module is one task of that loop: an event handler together with every   *)
(* promise continuation (microtask) it triggers.  An async function is cut *)
(* only where it awaits something the browser or the network completes in  *)
(* a later task: outputCtx.resume(), getUserMedia(), and the opening of    *)
(* the live socket.                                                        *)
(***************************************************************************)
EXTENDS Integers, Sequences, FiniteSets, TLC

\* ---------------------------------------------------------------- bounds
\* startSession invocations in one behaviour
MaxStarts == 2
\* audio buffers delivered by all ScriptProcessor nodes in one behaviour
MaxFrames == 2
\* clicks on Pause / Resume in one behaviour
MaxToggles == 2

\* calls of getClient made outside a live session in one behaviour
MaxCalls == 2
\* clicks and form edits in the provider console in one behaviour
MaxAdminSteps == 5
\* clicks on Add Provider in one behaviour
MaxAdds == 1

\* server messages delivered in one behaviour
MaxDelivered == 4
\* server messages with audio delivered in one behaviour
MaxChunks == 3
\* pause / resume notices added to the transcript while it is fed
MaxNotices == 1
\* the furthest an output context's clock runs
MaxClock == 4
\* times the browser suspends a running output context in one behaviour
MaxSuspends == 1

\* audio chunks delivered, and the furthest a clock runs, while sessions are
\* stopped and started again
MaxReplayed == 2
MaxReplayClock == 1

\* blocks of text in the message of a raw error
MaxBlocks == 3

Starts == 1..MaxStarts

\* The output AudioContexts: one per startSession invocation, and the one
\* playAudioChunk creates when it finds none.
LazyCtx == MaxStarts + 1
Ctxs == 1..LazyCtx

\* A reference cell that holds no object (null).
Null == 0

\* ------------------------------------------------------- provider store
Provider(id, active, prio, key, usage) ==
    [id |-> id, name |-> "Gemini", isActive |-> active, priority |-> prio, apiKey |-> key,
     usageCount |-> usage]

\* The provider lists a behaviour may start from: ConfigService's constructor
\* reads them from localStorage, or takes DEFAULT_PROVIDERS (one active
\* provider of priority 1 whose key is the environment's, possibly empty).
InitProviderLists ==
    { <<Provider("default-gemini", TRUE, 1, "key", 0)>>,
      <<Provider("default-gemini", TRUE, 1, "", 0)>>,
      <<Provider("default-gemini", FALSE, 1, "key", 0)>>,
      <<Provider("default-gemini", TRUE, 2, "key", 0), Provider("prov_1", TRUE, 1, "key", 0)>> }

\* Array.prototype.sort((a, b) => a.priority - b.priority): a stable sort, here by
\* inserting each element after the elements that do not exceed it.
RECURSIVE SortByPriority(_)
SortByPriority(ps) ==
    IF ps = <<>> THEN <<>>
    ELSE LET rest == SortByPriority(SubSeq(ps, 1, Len(ps) - 1))
             last == ps[Len(ps)]
             \* the element goes after every element that does not exceed it
             before == SelectSeq(rest, LAMBDA q : q.priority <= last.priority)
             after == SelectSeq(rest, LAMBDA q : q.priority > last.priority)
         IN before \o <<last>> \o after

\* getProviders sorts the stored array in place and returns it.
getProviders(ps) == SortByPriority(ps)

\* getActiveProviders: the sorted array, filtered (a new array of the same objects).
getActiveProviders(ps) == SelectSeq(getProviders(ps), LAMBDA p : p.isActive)

\* findIndex(p => p.id === id): the first index with that id, 0 when none.
FindIndex(ps, id) ==
    IF \E i \in 1..Len(ps) : ps[i].id = id
    THEN CHOOSE i \in 1..Len(ps) : ps[i].id = id /\ \A j \in 1..(i - 1) : ps[j].id # id
    ELSE 0

\* saveProvider, had it pushed the provider whether or not its id is stored.
saveProviderAppending(ps, provider) == Append(ps, provider)

\* saveProvider: replace the entry with the provider's id, or push it.
saveProvider(ps, provider) ==
    LET index == FindIndex(ps, provider.id)
    IN IF index >= 1 THEN [ps EXCEPT ![index] = provider] ELSE Append(ps, provider)

\* String.prototype.trim() on the keys the model draws.
Trim(key) == IF key = " " THEN "" ELSE key

ErrNoActiveProvider ==
    "No active AI providers configured. Please go to Admin > Providers and add a valid API Key."
ErrNoApiKey == "The active provider has no API Key. Please check your configuration."

\* getClient taking the last active provider of the sorted list instead of the first.
getClientTakingLast(ps) ==
    LET sorted == getProviders(ps)
        active == getActiveProviders(ps)
    IN IF Len(active) = 0
       THEN [ok |-> FALSE, err |-> ErrNoActiveProvider, primary |-> "", providers |-> sorted,
             saved |-> FALSE]
       ELSE LET primary == active[Len(active)]
                bumped == [primary EXCEPT !.usageCount = @ + 1]
            IN IF Trim(primary.apiKey) = ""
               THEN [ok |-> FALSE, err |-> ErrNoApiKey, primary |-> "", providers |-> sorted,
                     saved |-> FALSE]
               ELSE [ok |-> TRUE, err |-> "", primary |-> primary.id,
                     providers |-> saveProvider(sorted, bumped), saved |-> TRUE]

\* getClient: the first active provider by priority; its usage counter is
\* incremented in place and the store persisted.  The result records the
\* stored list after the call, and the thrown message when it throws.
getClient(ps) ==
    LET sorted == getProviders(ps)
        active == getActiveProviders(ps)
    IN IF Len(active) = 0
       THEN [ok |-> FALSE, err |-> ErrNoActiveProvider, primary |-> "", providers |-> sorted,
             saved |-> FALSE]
       ELSE LET primary == active[1]
                at == CHOOSE i \in 1..Len(sorted) :
                          sorted[i] = primary /\ \A j \in 1..(i - 1) : sorted[j] # primary
                bumped == [primary EXCEPT !.usageCount = @ + 1]
            IN IF Trim(primary.apiKey) = ""
               THEN [ok |-> FALSE, err |-> ErrNoApiKey, primary |-> "", providers |-> sorted,
                     saved |-> FALSE]
               ELSE [ok |-> TRUE, err |-> "", primary |-> primary.id,
                     providers |-> saveProvider([sorted EXCEPT ![at] = bumped], bumped),
                     saved |-> TRUE]

ErrNoActiveProviderContactAdmin == "No active AI providers configured. Please contact Admin."

\* getClient as src/services/geminiService.ts has it: no look at the key.
getClientNoKeyCheck(ps) ==
    LET sorted == getProviders(ps)
        active == getActiveProviders(ps)
    IN IF Len(active) = 0
       THEN [ok |-> FALSE, err |-> ErrNoActiveProviderContactAdmin, primary |-> "",
             providers |-> sorted, saved |-> FALSE]
       ELSE LET primary == active[1]
                at == CHOOSE i \in 1..Len(sorted) :
                          sorted[i] = primary /\ \A j \in 1..(i - 1) : sorted[j] # primary
                bumped == [primary EXCEPT !.usageCount = @ + 1]
            IN [ok |-> TRUE, err |-> "", primary |-> primary.id,
                providers |-> saveProvider([sorted EXCEPT ![at] = bumped], bumped),
                saved |-> TRUE]

\* deleteProvider: the stored array without the entries of that id.
deleteProvider(ps, id) == SelectSeq(ps, LAMBDA p : p.id # id)

\* --------------------------------------------------------- formatError
\* Of the substrings formatError looks for, those a message (lowercased) contains.
Keywords(msg) ==
    CASE msg = ErrNoActiveProvider -> {"api key"}
      [] msg = ErrNoApiKey -> {"api key"}
      [] msg = "Resource exhausted: quota" -> {"quota", "resource exhausted"}
      [] msg = "WebSocket closed unexpectedly" -> {}
      [] msg = "Network error" -> {"network"}
      [] msg = "fetch failed" -> {"fetch failed"}
      [] msg = "The model is overloaded" -> {"overloaded"}
      [] msg = "Internal error" -> {"internal error"}
      [] OTHER -> {}

FmtRateLimit ==
    "API Rate Limit Exceeded. The system is busy. Please wait a moment before trying again."
FmtAuth ==
    "Authentication Failed. Please check that your API Key is valid and has access to the Gemini API."
FmtServer ==
    "AI Service Unavailable. Google's servers are temporarily overloaded. Retrying might work."
FmtNetwork ==
    "Network Connection Error. Please check your internet connection and try again."
FmtBlocked ==
    "Content Blocked. The AI refused to answer due to safety settings. Please rephrase your request."
FmtHardware ==
    "Hardware Access Error. Please ensure microphone permissions are granted and you are using a modern browser."

AnyOf(ws, kw) == (ws \cap kw) # {}

\* Category, had the authentication test come before the rate-limit test.
CategoryAuthFirst(status, kw) ==
    IF status = 401 \/ status = 403
       \/ AnyOf({"401", "403", "api key", "permission denied"}, kw) THEN "auth"
    ELSE IF status = 429 \/ AnyOf({"429", "quota", "resource exhausted"}, kw) THEN "rate-limit"
    ELSE IF status >= 500
            \/ AnyOf({"500", "503", "internal error", "overloaded"}, kw) THEN "server"
    ELSE IF AnyOf({"fetch failed", "network", "failed to fetch", "offline", "load failed"}, kw)
         THEN "network"
    ELSE IF AnyOf({"safety", "blocked", "finishreason"}, kw) THEN "safety"
    ELSE IF AnyOf({"audiocontext", "mediadevices", "notallowederror"}, kw) THEN "hardware"
    ELSE "generic"

\* The cascade of tests in formatError, for an error of the given status (0:
\* none) whose lowercased message contains the substrings kw.
Category(status, kw) ==
    IF status = 429 \/ AnyOf({"429", "quota", "resource exhausted"}, kw) THEN "rate-limit"
    ELSE IF status = 401 \/ status = 403
            \/ AnyOf({"401", "403", "api key", "permission denied"}, kw) THEN "auth"
    ELSE IF status >= 500
            \/ AnyOf({"500", "503", "internal error", "overloaded"}, kw) THEN "server"
    ELSE IF AnyOf({"fetch failed", "network", "failed to fetch", "offline", "load failed"}, kw)
         THEN "network"
    ELSE IF AnyOf({"safety", "blocked", "finishreason"}, kw) THEN "safety"
    ELSE IF AnyOf({"audiocontext", "mediadevices", "notallowederror"}, kw) THEN "hardware"
    ELSE "generic"

\* The message formatError returns for a category (without the warning sign
\* every message starts with).
Friendly(category) ==
    CASE category = "rate-limit" -> FmtRateLimit
      [] category = "auth" -> FmtAuth
      [] category = "server" -> FmtServer
      [] category = "network" -> FmtNetwork
      [] category = "safety" -> FmtBlocked
      [] category = "hardware" -> FmtHardware

\* formatError on an error of the given status (0: none) and message, for the
\* messages the live session meets: they have no bracketed part and are
\* shorter than 150 characters.
formatError(status, msg) ==
    LET category == Category(status, Keywords(msg))
    IN IF category = "generic" THEN msg ELSE Friendly(category)

\* formatError on any raw error.  A text is a sequence of blocks of
\* BlockChars characters each: a word, blanks, an opening or a closing bracket.
BlockChars == 75
SliceChars == 150

Words == {"x", " ", "[", "]", "Quota", "API key", "503", "Network", "Blocked", "AudioContext"}

RECURSIVE TextsOfLen(_)
TextsOfLen(n) ==
    IF n = 0 THEN {<<>>} ELSE { Append(txt, w) : txt \in TextsOfLen(n - 1), w \in Words }

Texts == UNION { TextsOfLen(n) : n \in 0..MaxBlocks }

\* String.prototype.toLowerCase on a block.
ToLowerCase(w) ==
    CASE w = "Quota" -> "quota"
      [] w = "API key" -> "api key"
      [] w = "Network" -> "network"
      [] w = "Blocked" -> "blocked"
      [] w = "AudioContext" -> "audiocontext"
      [] OTHER -> w

\* The blocks of the lowercased text, for lowerMsg.includes.
Includes(txt) == { ToLowerCase(txt[i]) : i \in 1..Len(txt) }

\* msg.replace(/\[.*?\]/g, ''): every stretch from an opening bracket to the
\* next closing bracket goes; an opening bracket that is never closed stays.
RECURSIVE StripBracketed(_)
StripBracketed(txt) ==
    IF txt = <<>> THEN <<>>
    ELSE IF Head(txt) = "[" /\ \E i \in 2..Len(txt) : txt[i] = "]"
    THEN LET close == CHOOSE i \in 2..Len(txt) :
                          txt[i] = "]" /\ \A j \in 2..(i - 1) : txt[j] # "]"
         IN StripBracketed(SubSeq(txt, close + 1, Len(txt)))
    ELSE <<Head(txt)>> \o StripBracketed(Tail(txt))

\* String.prototype.trim on a text.
RECURSIVE TrimText(_)
TrimText(txt) ==
    IF txt = <<>> THEN <<>>
    ELSE IF Head(txt) = " " THEN TrimText(Tail(txt))
    ELSE IF txt[Len(txt)] = " " THEN TrimText(SubSeq(txt, 1, Len(txt) - 1))
    ELSE txt

\* slice(0, 150)
Slice(txt) ==
    IF Len(txt) * BlockChars <= SliceChars THEN txt
    ELSE SubSeq(txt, 1, SliceChars \div BlockChars)

\* What is thrown or handed to onerror: a string, an Error, another object
\* (with message, statusText and response.status, each possibly missing), or
\* something else that is not null.  status 0 and an empty text stand for a
\* missing property.
RawError(kind, status, responseStatus, message, statusText) ==
    [kind |-> kind, status |-> status, responseStatus |-> responseStatus,
     message |-> message, statusText |-> statusText]

Statuses == {0, 401, 429, 500}

RawErrors ==
    { RawError("string", 0, 0, m, <<>>) : m \in Texts }
      \cup { RawError("Error", st, 0, m, <<>>) : st \in Statuses, m \in Texts }
      \cup { RawError("object", 0, st, <<>>, txt) :
                 st \in {0, 429}, txt \in {<<>>, <<"x">>, <<"Network">>} }
      \cup { RawError("other", 0, 0, <<>>, <<>>) }

DefaultText == <<"An unexpected error occurred.">>
JsonText == <<"{\"isTrusted\":true}">>

\* The msg formatError works on.
MsgOf(e) ==
    CASE e.kind = "string" -> e.message
      [] e.kind = "Error" -> e.message
      [] e.kind = "object" ->
             IF e.message # <<>> THEN e.message
             ELSE IF e.statusText # <<>> THEN e.statusText
             ELSE JsonText
      [] OTHER -> DefaultText

\* error.status || error.response?.status
StatusOf(e) == IF e.status # 0 THEN e.status ELSE e.responseStatus

\* formatError on a raw error: the category it found and the text it returns.
formatRawError(e) ==
    LET msg == MsgOf(e)
        category == Category(StatusOf(e), Includes(msg))
    IN IF category = "generic"
       THEN [category |-> category, text |-> Slice(TrimText(StripBracketed(msg)))]
       ELSE [category |-> category, text |-> <<Friendly(category)>>]

\* Nothing formatted yet.
NotFormatted == [category |-> "none", text |-> <<>>]

\* The errors the live socket's error event may carry.
TransportErrors ==
    { [status |-> 0, msg |-> "WebSocket closed unexpectedly"],
      [status |-> 429, msg |-> "Resource exhausted: quota"] }

\* ------------------------------------------------------------- state
VARIABLES
    \* React state of LiveSession
    isActive, isPaused, messages, error, isCriticalError,
    \* refs of LiveSession (Null, or the startSession invocation that made the object)
    audioContextRef, inputSourceRef, processorRef, streamRef, outputAudioCtxRef,
    nextStartTimeRef, sendAudioRef, disconnectRef, isPausedRef,
    \* the objects each startSession invocation created
    outCtx,          \* its output AudioContext: "none", "open", "closed"
    stream,          \* its microphone MediaStream: "none", "live", "ended"
    inCtx,           \* its input AudioContext: "none", "open", "closed"
    onaudioprocess,  \* whether its ScriptProcessor has its handler and is connected
    conn,            \* its live socket: "none", "connecting", "open", "closing", "errored", "closed"
    resolved,        \* whether its sessionPromise has resolved
    thens,           \* callbacks waiting on its sessionPromise, in registration order
    \* where each startSession invocation stands: "idle", "resume", "gum", "done"
    pc, nStarts,
    \* the browser: "full", "noAudioContext", "noMediaDevices"
    browser,
    \* what navigator.onLine was when each invocation read it: "unread", "online", "offline"
    navOnLine,
    \* ConfigService
    providers, persisted,
    \* what was done to the outside world
    nDisconnect, nTrackStop, nInClose, nOutClose, gumCalls, connectCalls,
    wire,            \* per socket, the sendRealtimeInput calls made on its session
    frames,          \* the audio buffers the ScriptProcessors delivered
    nToggles,
    stoppedDuring,   \* whether stopSession ran while the invocation was suspended
    \* React state of ProviderManager
    editingId,       \* "" for null
    formData,
    \* the provider list in the memory of a second tab that shows the interview page
    peerProviders,
    \* what the provider console and the direct callers of getClient did
    registered,      \* the provider ids in the order they were first saved
    lastClient,      \* the outcome of the last getClient call
    nCalls, nAdmin, nAdds,
    \* the live stream
    delivered,       \* the server messages the socket's message event delivered
    clock,           \* currentTime of each output AudioContext
    scheduled,       \* the source.start(startTime) calls made
    awaiting,        \* the playAudioChunk calls waiting in await ctx.resume()
    nSuspends,
    \* error formatting
    rawError,        \* what a catch block or onerror got
    formatted,       \* what formatError made of it
    \* the text calls
    calls,           \* the calls of withRetry, parseResume and generateContextualAnswer
    resume,          \* App's resumeData: Null, or the parseResume call that produced it
    uploader,        \* React state of ResumeUploader
    isGeneratingText,
    nAsks,           \* manual questions that were added to the transcript
    nDismiss         \* clicks on Dismiss

vars ==
    << isActive, isPaused, messages, error, isCriticalError,
       audioContextRef, inputSourceRef, processorRef, streamRef, outputAudioCtxRef,
       nextStartTimeRef, sendAudioRef, disconnectRef, isPausedRef,
       outCtx, stream, inCtx, onaudioprocess, conn, resolved, thens,
       pc, nStarts, browser, navOnLine, providers, persisted,
       nDisconnect, nTrackStop, nInClose, nOutClose, gumCalls, connectCalls,
       wire, frames, nToggles, stoppedDuring,
       editingId, formData, peerProviders, registered, lastClient, nCalls, nAdmin, nAdds,
       delivered, clock, scheduled, awaiting, nSuspends, rawError, formatted,
       calls, resume, uploader, isGeneratingText, nAsks, nDismiss >>

\* The state as one record, so that a handler is a function from state to state.
S ==
    [ isActive |-> isActive, isPaused |-> isPaused, messages |-> messages, error |-> error,
      isCriticalError |-> isCriticalError,
      audioContextRef |-> audioContextRef, inputSourceRef |-> inputSourceRef,
      processorRef |-> processorRef, streamRef |-> streamRef,
      outputAudioCtxRef |-> outputAudioCtxRef, nextStartTimeRef |-> nextStartTimeRef,
      sendAudioRef |-> sendAudioRef, disconnectRef |-> disconnectRef,
      isPausedRef |-> isPausedRef,
      outCtx |-> outCtx, stream |-> stream, inCtx |-> inCtx,
      onaudioprocess |-> onaudioprocess, conn |-> conn, resolved |-> resolved,
      thens |-> thens, pc |-> pc, nStarts |-> nStarts, browser |-> browser,
      navOnLine |-> navOnLine,
      providers |-> providers, persisted |-> persisted,
      nDisconnect |-> nDisconnect, nTrackStop |-> nTrackStop, nInClose |-> nInClose,
      nOutClose |-> nOutClose, gumCalls |-> gumCalls, connectCalls |-> connectCalls,
      wire |-> wire, frames |-> frames, nToggles |-> nToggles,
      stoppedDuring |-> stoppedDuring,
      editingId |-> editingId, formData |-> formData, peerProviders |-> peerProviders,
      registered |-> registered, lastClient |-> lastClient,
      nCalls |-> nCalls, nAdmin |-> nAdmin, nAdds |-> nAdds,
      delivered |-> delivered, clock |-> clock, scheduled |-> scheduled,
      awaiting |-> awaiting, nSuspends |-> nSuspends,
      rawError |-> rawError, formatted |-> formatted,
      calls |-> calls, resume |-> resume, uploader |-> uploader,
      isGeneratingText |-> isGeneratingText, nAsks |-> nAsks, nDismiss |-> nDismiss ]

Set(s) ==
    /\ isActive' = s.isActive /\ isPaused' = s.isPaused /\ messages' = s.messages
    /\ error' = s.error /\ isCriticalError' = s.isCriticalError
    /\ audioContextRef' = s.audioContextRef /\ inputSourceRef' = s.inputSourceRef
    /\ processorRef' = s.processorRef /\ streamRef' = s.streamRef
    /\ outputAudioCtxRef' = s.outputAudioCtxRef /\ nextStartTimeRef' = s.nextStartTimeRef
    /\ sendAudioRef' = s.sendAudioRef /\ disconnectRef' = s.disconnectRef
    /\ isPausedRef' = s.isPausedRef
    /\ outCtx' = s.outCtx /\ stream' = s.stream /\ inCtx' = s.inCtx
    /\ onaudioprocess' = s.onaudioprocess /\ conn' = s.conn /\ resolved' = s.resolved
    /\ thens' = s.thens /\ pc' = s.pc /\ nStarts' = s.nStarts /\ browser' = s.browser
    /\ navOnLine' = s.navOnLine
    /\ providers' = s.providers /\ persisted' = s.persisted
    /\ nDisconnect' = s.nDisconnect /\ nTrackStop' = s.nTrackStop /\ nInClose' = s.nInClose
    /\ nOutClose' = s.nOutClose /\ gumCalls' = s.gumCalls /\ connectCalls' = s.connectCalls
    /\ wire' = s.wire /\ frames' = s.frames /\ nToggles' = s.nToggles
    /\ stoppedDuring' = s.stoppedDuring
    /\ editingId' = s.editingId /\ formData' = s.formData /\ peerProviders' = s.peerProviders
    /\ registered' = s.registered /\ lastClient' = s.lastClient
    /\ nCalls' = s.nCalls /\ nAdmin' = s.nAdmin /\ nAdds' = s.nAdds
    /\ delivered' = s.delivered /\ clock' = s.clock /\ scheduled' = s.scheduled
    /\ awaiting' = s.awaiting /\ nSuspends' = s.nSuspends
    /\ rawError' = s.rawError /\ formatted' = s.formatted
    /\ calls' = s.calls /\ resume' = s.resume /\ uploader' = s.uploader
    /\ isGeneratingText' = s.isGeneratingText /\ nAsks' = s.nAsks /\ nDismiss' = s.nDismiss

\* The state is s.
Is(s) ==
    /\ isActive = s.isActive /\ isPaused = s.isPaused /\ messages = s.messages
    /\ error = s.error /\ isCriticalError = s.isCriticalError
    /\ audioContextRef = s.audioContextRef /\ inputSourceRef = s.inputSourceRef
    /\ processorRef = s.processorRef /\ streamRef = s.streamRef
    /\ outputAudioCtxRef = s.outputAudioCtxRef /\ nextStartTimeRef = s.nextStartTimeRef
    /\ sendAudioRef = s.sendAudioRef /\ disconnectRef = s.disconnectRef
    /\ isPausedRef = s.isPausedRef
    /\ outCtx = s.outCtx /\ stream = s.stream /\ inCtx = s.inCtx
    /\ onaudioprocess = s.onaudioprocess /\ conn = s.conn /\ resolved = s.resolved
    /\ thens = s.thens /\ pc = s.pc /\ nStarts = s.nStarts /\ browser = s.browser
    /\ navOnLine = s.navOnLine
    /\ providers = s.providers /\ persisted = s.persisted
    /\ nDisconnect = s.nDisconnect /\ nTrackStop = s.nTrackStop /\ nInClose = s.nInClose
    /\ nOutClose = s.nOutClose /\ gumCalls = s.gumCalls /\ connectCalls = s.connectCalls
    /\ wire = s.wire /\ frames = s.frames /\ nToggles = s.nToggles
    /\ stoppedDuring = s.stoppedDuring
    /\ editingId = s.editingId /\ formData = s.formData /\ peerProviders = s.peerProviders
    /\ registered = s.registered /\ lastClient = s.lastClient
    /\ nCalls = s.nCalls /\ nAdmin = s.nAdmin /\ nAdds = s.nAdds
    /\ delivered = s.delivered /\ clock = s.clock /\ scheduled = s.scheduled
    /\ awaiting = s.awaiting /\ nSuspends = s.nSuspends
    /\ rawError = s.rawError /\ formatted = s.formatted
    /\ calls = s.calls /\ resume = s.resume /\ uploader = s.uploader
    /\ isGeneratingText = s.isGeneratingText /\ nAsks = s.nAsks /\ nDismiss = s.nDismiss

NoError == "<null>"

\* useState<Partial<AIProvider>>({}): the form before anything was put in it.
EmptyForm == [id |-> "", name |-> "", isActive |-> FALSE, priority |-> 0, apiKey |-> "",
              usageCount |-> 0]

\* useState of ResumeUploader: isUploading false, error and fileName null.
NotUploading == [isUploading |-> FALSE, error |-> NoError, fileName |-> ""]

\* No getClient call yet.
NoClient == [ok |-> FALSE, err |-> "", primary |-> ""]

\* The ids of a provider list, in its order.
Ids(ps) == [i \in 1..Len(ps) |-> ps[i].id]

Browsers == {"full", "noAudioContext", "noMediaDevices"}

\* The state once the page has loaded in browser b with the provider list ps in
\* localStorage: LiveSession's state and refs as declared, ConfigService as
\* constructed, ProviderManager's form empty, nothing done yet.
Loaded(b, ps) ==
    [ isActive |-> FALSE, isPaused |-> FALSE, messages |-> <<>>,
      error |-> NoError, isCriticalError |-> FALSE,
      audioContextRef |-> Null, inputSourceRef |-> Null, processorRef |-> Null,
      streamRef |-> Null, outputAudioCtxRef |-> Null, nextStartTimeRef |-> 0,
      sendAudioRef |-> Null, disconnectRef |-> Null, isPausedRef |-> FALSE,
      outCtx |-> [k \in Ctxs |-> "none"], stream |-> [k \in Starts |-> "none"],
      inCtx |-> [k \in Starts |-> "none"], onaudioprocess |-> [k \in Starts |-> FALSE],
      conn |-> [k \in Starts |-> "none"], resolved |-> [k \in Starts |-> FALSE],
      thens |-> [k \in Starts |-> <<>>],
      pc |-> [k \in Starts |-> "idle"], nStarts |-> 0,
      browser |-> b,
      navOnLine |-> [k \in Starts |-> "unread"],
      providers |-> ps, persisted |-> ps,
      nDisconnect |-> [k \in Starts |-> 0], nTrackStop |-> [k \in Starts |-> 0],
      nInClose |-> [k \in Starts |-> 0], nOutClose |-> [k \in Ctxs |-> 0],
      gumCalls |-> 0, connectCalls |-> 0,
      wire |-> [k \in Starts |-> <<>>], frames |-> <<>>, nToggles |-> 0,
      stoppedDuring |-> [k \in Starts |-> FALSE],
      editingId |-> "", formData |-> EmptyForm, peerProviders |-> <<>>,
      registered |-> Ids(ps), lastClient |-> NoClient,
      nCalls |-> 0, nAdmin |-> 0, nAdds |-> 0,
      delivered |-> <<>>, clock |-> [k \in Ctxs |-> 0], scheduled |-> <<>>,
      awaiting |-> <<>>, nSuspends |-> 0,
      rawError |-> RawError("other", 0, 0, <<>>, <<>>), formatted |-> NotFormatted,
      calls |-> <<>>, resume |-> Null, uploader |-> NotUploading,
      isGeneratingText |-> FALSE, nAsks |-> 0, nDismiss |-> 0 ]

Init == \E b \in Browsers, ps \in InitProviderLists : Is(Loaded(b, ps))

\* ----------------------------------------------------------- messages
\* A ChatMessage without its id and timestamp (Date.now() and Math.random());
\* its content is the sequence of the texts appended to it.
Message(type, content, isPartial) ==
    [type |-> type, content |-> content, isPartial |-> isPartial]

\* addMessage, had it replaced the partial message's text by the new fragment.
addMessageReplacing(msgs, content, type, isPartial) ==
    IF Len(msgs) > 0 /\ msgs[Len(msgs)].isPartial /\ msgs[Len(msgs)].type = type
    THEN [msgs EXCEPT ![Len(msgs)] =
             [@ EXCEPT !.content = <<content>>, !.isPartial = isPartial]]
    ELSE Append(msgs, Message(type, <<content>>, isPartial))

\* addMessage, had it extended the last message of the type whether or not it
\* is partial.
addMessageExtendingFinal(msgs, content, type, isPartial) ==
    IF Len(msgs) > 0 /\ msgs[Len(msgs)].type = type
    THEN [msgs EXCEPT ![Len(msgs)] =
             [@ EXCEPT !.content = @ \o <<content>>, !.isPartial = isPartial]]
    ELSE Append(msgs, Message(type, <<content>>, isPartial))

addMessage(msgs, content, type, isPartial) ==
    IF Len(msgs) > 0 /\ msgs[Len(msgs)].isPartial /\ msgs[Len(msgs)].type = type
    THEN [msgs EXCEPT ![Len(msgs)] =
             [@ EXCEPT !.content = @ \o <<content>>, !.isPartial = isPartial]]
    ELSE Append(msgs, Message(type, <<content>>, isPartial))

finalizeLastMessage(msgs, type) ==
    IF Len(msgs) > 0 /\ msgs[Len(msgs)].type = type
    THEN [msgs EXCEPT ![Len(msgs)] = [@ EXCEPT !.isPartial = FALSE]]
    ELSE msgs

TxtConnected == "Session connected. Listening..."
TxtEnded == "Session ended."
TxtPaused == "Microphone paused."
TxtResumed == "Microphone resumed."

\* ------------------------------------------------- the live connection
\* session.sendRealtimeInput({media}) on socket k's session.
sendRealtimeInput(s, k, f) ==
    [s EXCEPT !.wire[k] = Append(@, [frame |-> f, afterStop |-> s.nDisconnect[k] > 0])]

\* session.close() on socket k's session: an open socket starts closing.
sessionClose(s, k) ==
    IF s.conn[k] = "open" THEN [s EXCEPT !.conn[k] = "closing"] ELSE s

\* The two callbacks connectLive registers on sessionPromise with .then.
SendCb(f) == [op |-> "send", frame |-> f]
CloseCb == [op |-> "close", frame |-> 0]

\* One such callback, run with the session.
RunThen(s, k, cb) ==
    IF cb.op = "close" THEN sessionClose(s, k) ELSE sendRealtimeInput(s, k, cb.frame)

\* connectLive's sendAudio: sessionPromise.then(session => session.sendRealtimeInput(..)).
\* The callback runs in this task when the promise has resolved, and waits otherwise.
sendAudio(s, k, f) ==
    IF s.resolved[k] THEN RunThen(s, k, SendCb(f))
    ELSE [s EXCEPT !.thens[k] = Append(@, SendCb(f))]

\* connectLive's disconnect: sessionPromise.then(session => session.close()).
disconnect(s, k) ==
    LET s1 == [s EXCEPT !.nDisconnect[k] = @ + 1]
    IN IF s1.resolved[k] THEN RunThen(s1, k, CloseCb)
       ELSE [s1 EXCEPT !.thens[k] = Append(@, CloseCb)]

\* RunThens, had the callbacks been run last first.
RECURSIVE RunThensLastFirst(_, _, _)
RunThensLastFirst(s, k, cbs) ==
    IF cbs = <<>> THEN s
    ELSE RunThensLastFirst(RunThen(s, k, cbs[Len(cbs)]), k, SubSeq(cbs, 1, Len(cbs) - 1))

\* The callbacks waiting on socket k's sessionPromise, run in registration order.
RECURSIVE RunThens(_, _, _)
RunThens(s, k, cbs) ==
    IF cbs = <<>> THEN s ELSE RunThens(RunThen(s, k, Head(cbs)), k, Tail(cbs))

\* ---------------------------------------------------------- LiveSession
\* stopSession, had the close() of an input context that is already closed
\* thrown instead of returning a rejected promise.
stopSessionThrowingOnFailure(s) ==
    LET s1 == IF s.disconnectRef # Null THEN disconnect(s, s.disconnectRef) ELSE s
        s2 == IF s1.streamRef # Null
              THEN [s1 EXCEPT !.stream[s1.streamRef] = "ended", !.nTrackStop[s1.streamRef] = @ + 1]
              ELSE s1
        s3 == IF s2.audioContextRef # Null
              THEN [s2 EXCEPT !.inCtx[s2.audioContextRef] = "closed",
                              !.nInClose[s2.audioContextRef] = @ + 1]
              ELSE s2
        s4 == IF s3.outputAudioCtxRef # Null
              THEN [s3 EXCEPT !.outCtx[s3.outputAudioCtxRef] = "closed",
                              !.nOutClose[s3.outputAudioCtxRef] = @ + 1,
                              !.outputAudioCtxRef = Null]
              ELSE s3
    IN IF s2.audioContextRef # Null /\ s2.inCtx[s2.audioContextRef] = "closed"
       THEN [s3 EXCEPT !.stoppedDuring =
                           [k \in Starts |-> @[k] \/ s.pc[k] \in {"resume", "gum"}]]
       ELSE [s4 EXCEPT !.isActive = FALSE, !.isPaused = FALSE, !.isPausedRef = FALSE,
                       !.sendAudioRef = Null, !.processorRef = Null,
                       !.stoppedDuring =
                           [k \in Starts |-> @[k] \/ s.pc[k] \in {"resume", "gum"}]]

\* stopSession.  Its calls do not throw: disconnect() swallows the rejection
\* of the session promise, and close() of a closed AudioContext returns a
\* rejected promise that nothing awaits.
stopSession(s) ==
    LET s1 == IF s.disconnectRef # Null THEN disconnect(s, s.disconnectRef) ELSE s
        s2 == IF s1.streamRef # Null
              THEN [s1 EXCEPT !.stream[s1.streamRef] = "ended", !.nTrackStop[s1.streamRef] = @ + 1]
              ELSE s1
        s3 == IF s2.audioContextRef # Null
              THEN [s2 EXCEPT !.inCtx[s2.audioContextRef] = "closed",
                              !.nInClose[s2.audioContextRef] = @ + 1]
              ELSE s2
        s4 == IF s3.outputAudioCtxRef # Null
              THEN [s3 EXCEPT !.outCtx[s3.outputAudioCtxRef] = "closed",
                              !.nOutClose[s3.outputAudioCtxRef] = @ + 1,
                              !.outputAudioCtxRef = Null]
              ELSE s3
    IN [s4 EXCEPT !.isActive = FALSE, !.isPaused = FALSE, !.isPausedRef = FALSE,
                  !.sendAudioRef = Null, !.processorRef = Null,
                  !.stoppedDuring = [k \in Starts |-> @[k] \/ s.pc[k] \in {"resume", "gum"}]]

\* togglePause, had pausing also stopped the microphone tracks.
togglePauseStoppingTracks(s) ==
    LET newState == ~s.isPaused
        s1 == IF newState /\ s.streamRef # Null
              THEN [s EXCEPT !.stream[s.streamRef] = "ended", !.nTrackStop[s.streamRef] = @ + 1]
              ELSE s
    IN [s1 EXCEPT !.isPaused = newState, !.isPausedRef = newState,
                  !.messages = addMessage(@, IF newState THEN TxtPaused ELSE TxtResumed,
                                          "SYSTEM", FALSE),
                  !.nToggles = @ + 1]

togglePause(s) ==
    LET newState == ~s.isPaused
    IN [s EXCEPT !.isPaused = newState, !.isPausedRef = newState,
                 !.messages = addMessage(@, IF newState THEN TxtPaused ELSE TxtResumed,
                                         "SYSTEM", FALSE),
                 !.nToggles = @ + 1]

UiOffline == "You are offline. Please check your internet connection."
UiUnsupported ==
    "Your browser does not support required features. Please use Chrome, Edge, or Firefox."
UiMicDenied ==
    "Microphone access was denied. Please allow microphone access in your browser settings (look for the lock icon in the address bar)."
UiMicNotFound == "No microphone detected. Please connect a microphone and try again."

\* startSession's catch block, entered by invocation k with an error of message msg.
catch(s, k, msg) ==
    LET ui == CASE msg = "NETWORK_OFFLINE" -> UiOffline
                [] msg = "BROWSER_UNSUPPORTED" -> UiUnsupported
                [] msg = "MIC_PERMISSION_DENIED" -> UiMicDenied
                [] msg = "MIC_NOT_FOUND" -> UiMicNotFound
                [] OTHER -> msg
        critical == msg # "NETWORK_OFFLINE"
    IN stopSession([s EXCEPT !.pc[k] = "done", !.isCriticalError = critical, !.error = ui])

\* startSession from the mediaDevices check to the await of getUserMedia.
requestMicrophone(s, k) ==
    IF s.browser = "noMediaDevices" THEN catch(s, k, "BROWSER_UNSUPPORTED")
    ELSE [s EXCEPT !.pc[k] = "gum", !.gumCalls = @ + 1]

\* startSession, had it created the output context before looking at navigator.onLine.
startSessionCheckingOnlineLate(s, k, online, suspended) ==
    LET s0 == [s EXCEPT !.nStarts = k, !.error = NoError, !.isCriticalError = FALSE,
                        !.isPaused = FALSE, !.isPausedRef = FALSE,
                        !.navOnLine[k] = IF online THEN "online" ELSE "offline"]
    IN IF s0.browser = "noAudioContext" THEN catch(s0, k, "BROWSER_UNSUPPORTED")
       ELSE LET s1 == [s0 EXCEPT !.outCtx[k] = "open", !.outputAudioCtxRef = k]
            IN IF ~online THEN catch(s1, k, "NETWORK_OFFLINE")
               ELSE IF suspended THEN [s1 EXCEPT !.pc[k] = "resume"]
               ELSE requestMicrophone(s1, k)

\* startSession from its start to its first await that ends a task; online is
\* navigator.onLine, suspended whether the new output context starts suspended.
startSession(s, k, online, suspended) ==
    LET s0 == [s EXCEPT !.nStarts = k, !.error = NoError, !.isCriticalError = FALSE,
                        !.isPaused = FALSE, !.isPausedRef = FALSE,
                        !.navOnLine[k] = IF online THEN "online" ELSE "offline"]
    IN IF ~online THEN catch(s0, k, "NETWORK_OFFLINE")
       ELSE IF s0.browser = "noAudioContext" THEN catch(s0, k, "BROWSER_UNSUPPORTED")
       ELSE LET s1 == [s0 EXCEPT !.outCtx[k] = "open", !.outputAudioCtxRef = k]
            IN IF suspended THEN [s1 EXCEPT !.pc[k] = "resume"]
               ELSE requestMicrophone(s1, k)

ErrResumeClosed == "Cannot resume a closed AudioContext."

\* startSession after await outputCtx.resume(): resume() of a context closed
\* meanwhile rejects.
afterResume(s, k) ==
    IF s.outCtx[k] = "closed" THEN catch(s, k, ErrResumeClosed) ELSE requestMicrophone(s, k)

GumResults == {"ok", "NotAllowedError", "NotFoundError", "NotReadableError"}
ErrNotReadable == "Could not start audio source"

\* geminiService.connectLive for invocation k, to the resolution or rejection of
\* the promise it returns: getClient, then client.live.connect, which is not
\* awaited.
connectLive(s, k) ==
    LET gc == getClient(s.providers)
        s1 == [s EXCEPT !.providers = gc.providers,
                        !.persisted = IF gc.saved THEN gc.providers ELSE @]
    IN IF gc.ok
       THEN [ok |-> TRUE, err |-> "",
             s |-> [s1 EXCEPT !.conn[k] = "connecting", !.connectCalls = @ + 1]]
       ELSE [ok |-> FALSE, err |-> formatError(0, gc.err), s |-> s1]

\* startSession after await getUserMedia(), to its end.
afterGetUserMedia(s, k, result) ==
    IF result = "NotAllowedError" THEN catch(s, k, "MIC_PERMISSION_DENIED")
    ELSE IF result = "NotFoundError" THEN catch(s, k, "MIC_NOT_FOUND")
    ELSE IF result # "ok" THEN catch(s, k, ErrNotReadable)
    ELSE LET s1 == [s EXCEPT !.stream[k] = "live", !.streamRef = k,
                             !.inCtx[k] = "open", !.audioContextRef = k,
                             !.inputSourceRef = k, !.processorRef = k]
             c == connectLive(s1, k)
         IN IF ~c.ok THEN catch(c.s, k, c.err)
            ELSE [c.s EXCEPT !.sendAudioRef = k, !.disconnectRef = k,
                             !.onaudioprocess[k] = TRUE, !.pc[k] = "done"]

\* processor.onaudioprocess of invocation k's ScriptProcessor, for buffer f.
\* The buffer is recorded with the processor that delivered it, whether the
\* session was paused, and whether it was handed to a sendAudio whose
\* sessionPromise had not resolved.
onAudioProcess(s, k, f) ==
    IF s.isPausedRef
    THEN [s EXCEPT !.frames = Append(@, [id |-> f, proc |-> k, paused |-> TRUE,
                                         early |-> FALSE])]
    ELSE LET early == s.sendAudioRef # Null /\ ~s.resolved[s.sendAudioRef]
             s1 == [s EXCEPT !.frames = Append(@, [id |-> f, proc |-> k, paused |-> FALSE,
                                                   early |-> early])]
         IN IF s.sendAudioRef # Null THEN sendAudio(s1, s.sendAudioRef, f) ELSE s1

\* The socket's open event: connectLive's onopen, which calls LiveSession's
\* onOpen; then the sessionPromise resolves and its waiting callbacks run.
onOpen(s) ==
    [s EXCEPT !.isActive = TRUE, !.messages = addMessage(@, TxtConnected, "SYSTEM", FALSE)]

remoteOpen(s, k) ==
    LET s1 == onOpen([s EXCEPT !.conn[k] = "open"])
        s2 == [s1 EXCEPT !.resolved[k] = TRUE, !.thens[k] = <<>>]
    IN RunThens(s2, k, s.thens[k])

\* The socket's error event: connectLive's onerror formats the error and calls
\* LiveSession's onError.
onError(s, message) ==
    stopSession([s EXCEPT !.isCriticalError = TRUE, !.error = message])

remoteError(s, k, e) ==
    onError([s EXCEPT !.conn[k] = "errored"], formatError(e.status, e.msg))

\* The socket's close event: connectLive's onclose calls LiveSession's onClose.
onClose(s) ==
    [s EXCEPT !.isActive = FALSE, !.messages = addMessage(@, TxtEnded, "SYSTEM", FALSE)]

remoteClose(s, k) == onClose([s EXCEPT !.conn[k] = "closed"])

\* ---------------------------------------------------------------- actions
\* A click on "Start Interview Mode", rendered while isActive is false.
StartSession ==
    /\ ~isActive
    /\ nStarts < MaxStarts
    /\ \E online \in BOOLEAN, suspended \in BOOLEAN :
           Set(startSession(S, nStarts + 1, online, suspended))

\* outputCtx.resume() settles.
ResumeDone(k) ==
    /\ pc[k] = "resume"
    /\ Set(afterResume(S, k))

\* getUserMedia() settles.
GetUserMediaDone(k) ==
    /\ pc[k] = "gum"
    /\ \E result \in GumResults : Set(afterGetUserMedia(S, k, result))

\* A click on "Stop", rendered while isActive is true.
StopClick ==
    /\ isActive
    /\ Set(stopSession(S))

\* A click on "Pause" / "Resume", rendered while isActive is true.
TogglePause ==
    /\ isActive
    /\ nToggles < MaxToggles
    /\ Set(togglePause(S))

\* A ScriptProcessor delivers an audio buffer: its context is open and its
\* handler is set.
AudioProcess(k) ==
    /\ onaudioprocess[k]
    /\ inCtx[k] = "open"
    /\ Len(frames) < MaxFrames
    /\ Set(onAudioProcess(S, k, Len(frames) + 1))

RemoteOpen(k) ==
    /\ conn[k] = "connecting"
    /\ Set(remoteOpen(S, k))

RemoteError(k) ==
    /\ conn[k] \in {"connecting", "open"}
    /\ \E e \in TransportErrors : Set(remoteError(S, k, e))

\* The close event follows a local close(), an error, or the server's close.
RemoteClose(k) ==
    /\ conn[k] \in {"open", "closing", "errored"}
    /\ Set(remoteClose(S, k))

Next ==
    \/ StartSession
    \/ StopClick
    \/ TogglePause
    \/ \E k \in Starts : ResumeDone(k)
    \/ \E k \in Starts : GetUserMediaDone(k)
    \/ \E k \in Starts : AudioProcess(k)
    \/ \E k \in Starts : RemoteOpen(k)
    \/ \E k \in Starts : RemoteError(k)
    \/ \E k \in Starts : RemoteClose(k)

Spec == Init /\ [][Next]_vars

\* ----------------------------------------------------------------- claims
\* A session's exit paths: an explicit stop that reached its connection, the
\* remote close or error event, an exception inside its startSession.
Ended(k) ==
    \/ nDisconnect[k] >= 1
    \/ conn[k] \in {"closed", "errored"}
    \/ pc[k] = "done" /\ conn[k] = "none"

SessionReleased(k) ==
    /\ conn[k] # "none" => nDisconnect[k] >= 1
    /\ stream[k] # "live"
    /\ inCtx[k] # "open"
    /\ outCtx[k] # "open"

\* C1: whichever exit path ended a session, its connection was told to
\* disconnect, its microphone tracks are stopped and both its audio contexts
\* are closed.
C1_TeardownOnEveryExit == \A k \in Starts : Ended(k) => SessionReleased(k)

\* C2: in every reachable state, stopSession run twice in succession leaves the
\* state that running it once leaves, the release counts included.
C2_StopIdempotent == stopSession(stopSession(S)) = stopSession(S)

\* C3: no resource is released more than once.
C3_ReleasedAtMostOnce ==
    \A k \in Starts :
        nDisconnect[k] <= 1 /\ nTrackStop[k] <= 1 /\ nInClose[k] <= 1 /\ nOutClose[k] <= 1

\* C4: an open event delivered after stopSession ran for that connection
\* neither activates the session nor adds a message.
C4_LateOpenDiscarded ==
    [][\A k \in Starts :
          (~resolved[k] /\ resolved'[k] /\ nDisconnect[k] >= 1)
              => (~isActive' /\ messages' = messages)]_vars

\* C5: no sendRealtimeInput call is made on a session after stopSession ran
\* for it.
C5_NoSendAfterStop ==
    \A k \in Starts : \A i \in 1..Len(wire[k]) : ~wire[k][i].afterStop

\* C6: when stopSession ran while a startSession invocation was suspended and
\* that invocation has finished, its microphone is not live, its audio contexts
\* are not open and its connection is closed or told to close.
C6_StopDuringStartSafe ==
    \A k \in Starts :
        (stoppedDuring[k] /\ pc[k] = "done") =>
            /\ stream[k] # "live"
            /\ inCtx[k] # "open"
            /\ outCtx[k] # "open"
            /\ conn[k] \in {"connecting", "open"} => nDisconnect[k] >= 1

\* C7: at most one microphone stream and at most one remote connection are live.
C7_OneSessionAtATime ==
    /\ Cardinality({k \in Starts : stream[k] = "live"}) <= 1
    /\ Cardinality({k \in Starts : conn[k] \in {"connecting", "open"}}) <= 1

\* Where buffer f went: the sockets it was sent on, or waits to be sent on.
SentOn(f) ==
    {k \in Starts : \/ \E i \in 1..Len(wire[k]) : wire[k][i].frame = f
                    \/ \E i \in 1..Len(thens[k]) : thens[k][i] = SendCb(f)}

\* The same in the state a step leads to.
SentOnAfter(f) ==
    {k \in Starts : \/ \E i \in 1..Len(wire'[k]) : wire'[k][i].frame = f
                    \/ \E i \in 1..Len(thens'[k]) : thens'[k][i] = SendCb(f)}

\* Whether the last pause / resume notice of the transcript is the resume one.
Resumed(msgs) ==
    LET notices == SelectSeq(msgs, LAMBDA m : m.content \in {<<TxtPaused>>, <<TxtResumed>>})
    IN Len(notices) > 0 /\ notices[Len(notices)].content = <<TxtResumed>>

\* C8: a buffer captured while paused is never sent, and a buffer captured
\* after a resume, while the session is active and not paused, is sent.
C8_PauseGatesFrames ==
    /\ [](\A i \in 1..Len(frames) : frames[i].paused => SentOn(frames[i].id) = {})
    /\ [][(Len(frames') > Len(frames) /\ isActive /\ ~isPausedRef /\ Resumed(messages))
              => SentOnAfter(Len(frames) + 1) # {}]_vars

\* C9: a pause / resume click flips the paused flag, appends one system
\* message and leaves the connection, the microphone, the audio contexts, the
\* send and disconnect capabilities, the playback clock and isActive alone.
C9_TogglePauseFrame ==
    [][nToggles' # nToggles =>
          /\ isPaused' = ~isPaused
          /\ isPausedRef' = isPaused'
          /\ messages' = Append(messages,
                 Message("SYSTEM", <<IF isPaused' THEN TxtPaused ELSE TxtResumed>>, FALSE))
          /\ UNCHANGED << conn, resolved, thens, wire, stream, inCtx, outCtx,
                          streamRef, audioContextRef, outputAudioCtxRef,
                          sendAudioRef, disconnectRef, nextStartTimeRef, isActive,
                          nDisconnect, nTrackStop, nInClose, nOutClose >>]_vars

\* A session that was paused and resumed with its connection open and its
\* microphone live.
C9_Witness ==
    /\ nToggles = 2 /\ ~isPaused /\ isActive
    /\ \E k \in Starts : conn[k] = "open" /\ stream[k] = "live" /\ sendAudioRef = k

\* C10: a startSession that finds the browser offline ends at once with the
\* offline warning; it creates no audio context, asks for no microphone, opens
\* no connection and leaves the provider store alone.
C10_OfflineStartAcquiresNothing ==
    [][\A k \in Starts :
          (navOnLine[k] = "unread" /\ navOnLine'[k] = "offline") =>
              /\ error' = UiOffline /\ ~isCriticalError' /\ pc'[k] = "done"
              /\ \A j \in Starts :
                     /\ outCtx[j] = "none" => outCtx'[j] = "none"
                     /\ inCtx[j] = "none" => inCtx'[j] = "none"
                     /\ stream[j] = "none" => stream'[j] = "none"
                     /\ conn[j] = "none" => conn'[j] = "none"
              /\ UNCHANGED << gumCalls, connectCalls, providers, persisted >>]_vars

\* An offline start made while an earlier session holds its resources.
C10_Witness ==
    \E k \in Starts :
        /\ navOnLine[k] = "offline" /\ error = UiOffline /\ pc[k] = "done"
        /\ \E j \in Starts : gumCalls = 1 /\ stream[j] # "none"

\* ====================================================== provider console
\* ProviderManager (src/unnamed/part_005) edits the provider store while
\* parseResume and generateContextualAnswer call getClient on it.

Keys == {"", " ", "key"}
Priorities == {1, 2}
NewIds == <<"prov_2", "prov_3", "prov_4">>

\* A call of getClient by parseResume or generateContextualAnswer, with the
\* outcome gc of the getClient that caller is built with.  App renders either
\* the admin portal or the interview page, and the interview page is reached
\* from the admin portal by logging out: ProviderManager is unmounted by then,
\* and its form is empty when it mounts again.
callGetClient(s, gc) ==
    [s EXCEPT !.providers = gc.providers,
              !.persisted = IF gc.saved THEN gc.providers ELSE @,
              !.lastClient = [ok |-> gc.ok, err |-> gc.err, primary |-> gc.primary],
              !.nCalls = @ + 1,
              !.editingId = "",
              !.formData = EmptyForm]

\* refresh: setProviders([...configService.getProviders()]) sorts the stored array.
refresh(s) == [s EXCEPT !.providers = getProviders(@)]

handleEdit(s, p) ==
    [s EXCEPT !.editingId = p.id, !.formData = p]

handleAddNew(s) ==
    LET newId == NewIds[s.nAdds + 1]
    IN [s EXCEPT !.formData = [id |-> newId, name |-> "New Provider", isActive |-> TRUE,
                               priority |-> Len(s.providers) + 1, apiKey |-> "",
                               usageCount |-> 0],
                 !.editingId = newId,
                 !.nAdds = @ + 1]

\* onChange of a form field: setFormData({...formData, field: value}), a copy.
changeForm(s, field, value) ==
    [s EXCEPT !.formData = [@ EXCEPT ![field] = value]]

\* Cancel: setEditingId(null).
cancelEdit(s) == [s EXCEPT !.editingId = ""]

handleSave(s) ==
    IF s.editingId # "" /\ s.formData.name # "" /\ s.formData.apiKey # ""
    THEN LET saved == saveProvider(s.providers, s.formData)
         IN refresh([s EXCEPT !.providers = saved,
                              !.persisted = saved,
                              !.registered = IF FindIndex(s.providers, s.formData.id) >= 1
                                             THEN @ ELSE Append(@, s.formData.id),
                              !.editingId = "",
                              !.formData = EmptyForm])
    ELSE s

\* handleDelete, confirmed by the user.
handleDelete(s, id) ==
    LET left == deleteProvider(s.providers, id)
    IN refresh([s EXCEPT !.providers = left,
                         !.persisted = left,
                         !.registered = SelectSeq(@, LAMBDA r : r # id)])

AdminStep(s) == Set([s EXCEPT !.nAdmin = @ + 1])

GetClient ==
    /\ nCalls < MaxCalls
    /\ Set(callGetClient(S, getClient(providers)))

GetClientNoKeyCheck ==
    /\ nCalls < MaxCalls
    /\ Set(callGetClient(S, getClientNoKeyCheck(providers)))

HandleEdit ==
    /\ nAdmin < MaxAdminSteps
    /\ \E i \in 1..Len(providers) : AdminStep(handleEdit(S, providers[i]))

HandleAddNew ==
    /\ nAdmin < MaxAdminSteps /\ nAdds < MaxAdds
    /\ AdminStep(handleAddNew(S))

ChangeForm ==
    /\ nAdmin < MaxAdminSteps /\ editingId # ""
    /\ \/ \E n \in {"", "Renamed"} : AdminStep(changeForm(S, "name", n))
       \/ \E key \in Keys : AdminStep(changeForm(S, "apiKey", key))
       \/ \E prio \in Priorities : AdminStep(changeForm(S, "priority", prio))
       \/ \E active \in BOOLEAN : AdminStep(changeForm(S, "isActive", active))

CancelEdit ==
    /\ nAdmin < MaxAdminSteps /\ editingId # ""
    /\ AdminStep(cancelEdit(S))

HandleSave ==
    /\ nAdmin < MaxAdminSteps /\ editingId # ""
    /\ AdminStep(handleSave(S))

HandleDelete ==
    /\ nAdmin < MaxAdminSteps
    /\ \E i \in 1..Len(providers) : AdminStep(handleDelete(S, providers[i].id))

\* No live session: only the store, the console and the callers of getClient.
\* ProviderManager has mounted: useState(configService.getProviders()) has sorted
\* the stored array, which localStorage holds in the order it was saved in.
ProviderInit ==
    \E ps \in InitProviderLists :
        Is([Loaded("full", ps) EXCEPT !.providers = getProviders(ps)])

ProviderNext ==
    \/ GetClient
    \/ GetClientNoKeyCheck
    \/ HandleEdit
    \/ HandleAddNew
    \/ ChangeForm
    \/ CancelEdit
    \/ HandleSave
    \/ HandleDelete

ProviderSpec == ProviderInit /\ [][ProviderNext]_vars

\* --------------------------------------------------------------- two tabs
\* The admin portal in one tab and the interview page in another: each tab has
\* its own ConfigService, built from localStorage when the tab loaded, and both
\* write the one localStorage entry si_providers.

\* getClient in the interview tab, called by parseResume, generateContextualAnswer
\* or connectLive there.
peerGetClient(s) ==
    LET gc == getClient(s.peerProviders)
    IN [s EXCEPT !.peerProviders = gc.providers,
                 !.persisted = IF gc.saved THEN gc.providers ELSE @,
                 !.lastClient = [ok |-> gc.ok, err |-> gc.err, primary |-> gc.primary],
                 !.nCalls = @ + 1]

\* The interview tab is loaded again: ConfigService's constructor reads localStorage.
peerLoad(s) == [s EXCEPT !.peerProviders = s.persisted]

PeerGetClient ==
    /\ nCalls < MaxCalls
    /\ Set(peerGetClient(S))

PeerLoad ==
    /\ peerProviders # persisted
    /\ Set(peerLoad(S))

TabsInit ==
    \E ps \in InitProviderLists :
        Is([Loaded("full", ps) EXCEPT !.providers = getProviders(ps), !.peerProviders = ps])

TabsNext ==
    \/ PeerGetClient
    \/ PeerLoad
    \/ HandleEdit
    \/ HandleAddNew
    \/ ChangeForm
    \/ CancelEdit
    \/ HandleSave
    \/ HandleDelete

TabsSpec == TabsInit /\ [][TabsNext]_vars

\* ------------------------------------------------ claims on the provider store
\* The indices of the active providers of a list that no active provider precedes
\* in priority.
MinActive(ps) ==
    { i \in 1..Len(ps) :
        /\ ps[i].isActive
        /\ \A j \in 1..Len(ps) : ps[j].isActive => ps[i].priority <= ps[j].priority }

\* The step is a call of getClient.
IsGetClientCall == nCalls' # nCalls

\* The call returned a minimum-priority active provider, counted it once and
\* left every other provider's counter and the set of providers alone.
ReturnedMinAndCountedIt ==
    /\ lastClient'.ok
    /\ \E i \in MinActive(providers) : providers[i].id = lastClient'.primary
    /\ Len(providers') = Len(providers)
    /\ \A i \in 1..Len(providers) :
          \E j \in 1..Len(providers') :
              /\ providers'[j].id = providers[i].id
              /\ providers'[j].usageCount =
                     providers[i].usageCount
                       + (IF providers[i].id = lastClient'.primary THEN 1 ELSE 0)

CountersUnchanged ==
    /\ Len(providers') = Len(providers)
    /\ \A i \in 1..Len(providers) :
          \E j \in 1..Len(providers') :
              /\ providers'[j].id = providers[i].id
              /\ providers'[j].usageCount = providers[i].usageCount

\* C12: with no active provider getClient fails with the no-active-provider
\* error, with a keyless (empty or blank key) top-priority active provider it
\* fails with the missing-key error; either way no usage counter changes and
\* nothing is persisted.
C12_FailureChangesNothing ==
    [][IsGetClientCall =>
          /\ MinActive(providers) = {} =>
                /\ ~lastClient'.ok
                /\ lastClient'.err \in {ErrNoActiveProvider, ErrNoActiveProviderContactAdmin}
                /\ CountersUnchanged /\ persisted' = persisted
          /\ (/\ MinActive(providers) # {}
              /\ \A i \in MinActive(providers) : Trim(providers[i].apiKey) = "") =>
                /\ ~lastClient'.ok
                /\ lastClient'.err = ErrNoApiKey
                /\ CountersUnchanged /\ persisted' = persisted]_vars

\* Where an id stands in a sequence of ids (its first place).
Pos(ids, id) == CHOOSE i \in 1..Len(ids) : ids[i] = id /\ \A j \in 1..(i - 1) : ids[j] # id

\* C13: of several active providers that share the lowest priority, getClient
\* returns the one registered first, whatever saves, deletions and sorts of
\* the stored array came before.
C13_TieByRegistration ==
    [][(IsGetClientCall /\ lastClient'.ok) =>
          \A i \in MinActive(providers) :
              Pos(registered, lastClient'.primary) <= Pos(registered, providers[i].id)]_vars

\* C14: the stored usage counter of a provider that stays in the store never
\* goes down, and changes only in a successful getClient, however calls of
\* getClient and edits in the provider console interleave.
C14_UsageNeverLowered ==
    [][\A i \in 1..Len(persisted) : \A j \in 1..Len(persisted') :
          persisted'[j].id = persisted[i].id =>
              /\ persisted'[j].usageCount >= persisted[i].usageCount
              /\ persisted'[j].usageCount # persisted[i].usageCount =>
                     (IsGetClientCall /\ lastClient'.ok)]_vars

\* ======================================================= the live stream
\* What the open socket delivers: transcript fragments, turn-complete markers
\* and audio chunks (connectLive's onmessage), and the playback of the audio.

Max(a, b) == IF a >= b THEN a ELSE b

\* The texts of the fragments the n-th server message may carry.
UserTexts == <<"u1", "u2", "u3", "u4", "u5", "u6">>
AiTexts == <<"a1", "a2", "a3", "a4", "a5", "a6">>

\* inlineData of a server message: its payload is 16-bit PCM in base64
\* ("pcm"), not base64 at all, or an odd number of bytes; dur is the duration
\* of the decoded buffer, id tells the base64 strings apart (the number of the
\* server message that carries it).
NoAudio == [id |-> 0, dur |-> 0, payload |-> "none"]
Durations == {1, 2}
Payloads == {"pcm", "badBase64", "oddBytes"}
Chunks(n) == [id : {n}, dur : Durations, payload : Payloads]

ServerMessage(input, output, turnComplete, audio) ==
    [input |-> input, output |-> output, turnComplete |-> turnComplete, audio |-> audio]

\* The n-th server message, when it carries no audio.
TextMessages(n) ==
    { ServerMessage(i, o, c, NoAudio) :
        i \in {"", UserTexts[n]}, o \in {"", AiTexts[n]}, c \in BOOLEAN }

\* The n-th server message, when it carries audio only.
AudioMessages(n) == { ServerMessage("", "", FALSE, a) : a \in Chunks(n) }

\* LiveSession's onMessage callback; text is "" for null.
onMessage(s, text, isUser, isComplete) ==
    IF text # ""
    THEN [s EXCEPT !.messages = addMessage(@, text, IF isUser THEN "USER" ELSE "AI",
                                          ~isComplete)]
    ELSE IF isComplete
    THEN [s EXCEPT !.messages = finalizeLastMessage(@, "AI")]
    ELSE s

\* scheduleChunk, had it started every chunk at the current clock time.
scheduleChunkAtClock(s, ctx, chunk) ==
    IF chunk.payload # "pcm" THEN s
    ELSE [s EXCEPT !.scheduled = Append(@, [ctx |-> ctx, start |-> s.clock[ctx],
                                            dur |-> chunk.dur, now |-> s.clock[ctx],
                                            chunk |-> chunk.id,
                                            after |-> Len(s.delivered)]),
                   !.nextStartTimeRef = s.clock[ctx] + chunk.dur]

\* scheduleChunk, had it advanced nextStartTimeRef by the duration only.
scheduleChunkAddingDuration(s, ctx, chunk) ==
    IF chunk.payload # "pcm" THEN s
    ELSE LET startTime == Max(s.clock[ctx], s.nextStartTimeRef)
         IN [s EXCEPT !.scheduled = Append(@, [ctx |-> ctx, start |-> startTime,
                                               dur |-> chunk.dur, now |-> s.clock[ctx],
                                               chunk |-> chunk.id,
                                               after |-> Len(s.delivered)]),
                      !.nextStartTimeRef = @ + chunk.dur]

\* scheduleChunk, had a payload that does not decode been scheduled all the same.
scheduleChunkUndecoded(s, ctx, chunk) ==
    LET startTime == Max(s.clock[ctx], s.nextStartTimeRef)
    IN [s EXCEPT !.scheduled = Append(@, [ctx |-> ctx, start |-> startTime,
                                          dur |-> chunk.dur, now |-> s.clock[ctx],
                                          chunk |-> chunk.id,
                                          after |-> Len(s.delivered)]),
                 !.nextStartTimeRef = startTime + chunk.dur]

\* playAudioChunk from the decoding of the payload to its end, for the context
\* ctx it read from outputAudioCtxRef: atob or new Int16Array throws on a bad
\* payload, and the catch block drops the chunk.  A source.start call is
\* recorded with its context, its start time, the buffer's duration, the
\* context's clock at the call, the chunk, and the number of server messages
\* whose handling had ended by then.
scheduleChunk(s, ctx, chunk) ==
    IF chunk.payload # "pcm" THEN s
    ELSE LET startTime == Max(s.clock[ctx], s.nextStartTimeRef)
         IN [s EXCEPT !.scheduled = Append(@, [ctx |-> ctx, start |-> startTime,
                                               dur |-> chunk.dur, now |-> s.clock[ctx],
                                               chunk |-> chunk.id,
                                               after |-> Len(s.delivered)]),
                      !.nextStartTimeRef = startTime + chunk.dur]

\* playAudioChunk to its end or to await ctx.resume(); suspended says whether a
\* context it has to create starts suspended.
playAudioChunk(s, chunk, suspended) ==
    IF s.outputAudioCtxRef = Null /\ s.browser = "noAudioContext" THEN s
    ELSE LET s1 == IF s.outputAudioCtxRef = Null
                   THEN [s EXCEPT !.outCtx[LazyCtx] = IF suspended THEN "suspended" ELSE "open",
                                  !.clock[LazyCtx] = 0,
                                  !.outputAudioCtxRef = LazyCtx]
                   ELSE s
             ctx == s1.outputAudioCtxRef
         IN IF s1.outCtx[ctx] = "suspended"
            THEN [s1 EXCEPT !.awaiting = Append(@, [ctx |-> ctx, chunk |-> chunk])]
            ELSE scheduleChunk(s1, ctx, chunk)

\* onmessage, had a message without text been taken for a turn-complete marker.
onmessageFinalizingWithoutText(s, m, suspended) ==
    LET s1 == IF m.input # "" THEN onMessage(s, m.input, TRUE, FALSE) ELSE s
        s2 == IF m.output # "" THEN onMessage(s1, m.output, FALSE, FALSE) ELSE s1
        s3 == IF m.turnComplete \/ (m.input = "" /\ m.output = "")
              THEN onMessage(s2, "", FALSE, TRUE) ELSE s2
        s4 == IF m.audio # NoAudio THEN playAudioChunk(s3, m.audio, suspended) ELSE s3
    IN [s4 EXCEPT !.delivered = Append(@, m)]

\* connectLive's onmessage for the server message m.
onmessage(s, m, suspended) ==
    LET s1 == IF m.input # "" THEN onMessage(s, m.input, TRUE, FALSE) ELSE s
        s2 == IF m.output # "" THEN onMessage(s1, m.output, FALSE, FALSE) ELSE s1
        s3 == IF m.turnComplete THEN onMessage(s2, "", FALSE, TRUE) ELSE s2
        s4 == IF m.audio # NoAudio THEN playAudioChunk(s3, m.audio, suspended) ELSE s3
    IN [s4 EXCEPT !.delivered = Append(@, m)]

\* RunAwaiting, had the calls been resumed last first.
RECURSIVE RunAwaitingLastFirst(_, _)
RunAwaitingLastFirst(s, ws) ==
    IF ws = <<>> THEN s
    ELSE RunAwaitingLastFirst(scheduleChunk(s, ws[Len(ws)].ctx, ws[Len(ws)].chunk),
                              SubSeq(ws, 1, Len(ws) - 1))

\* The playAudioChunk calls in ws, resumed in the order they were made.
RECURSIVE RunAwaiting(_, _)
RunAwaiting(s, ws) ==
    IF ws = <<>> THEN s
    ELSE RunAwaiting(scheduleChunk(s, Head(ws).ctx, Head(ws).chunk), Tail(ws))

\* The browser settles the resume() promises of context ctx in one task, in the
\* order of the calls: the context runs again, or it was closed and they reject.
resumeSettled(s, ctx) ==
    LET mine == SelectSeq(s.awaiting, LAMBDA w : w.ctx = ctx)
        s1 == [s EXCEPT !.awaiting = SelectSeq(@, LAMBDA w : w.ctx # ctx)]
    IN IF s.outCtx[ctx] = "closed" THEN s1
       ELSE RunAwaiting([s1 EXCEPT !.outCtx[ctx] = "open"], mine)

\* The browser suspends a running output context.
browserSuspends(s, ctx) ==
    [s EXCEPT !.outCtx[ctx] = "suspended", !.nSuspends = @ + 1]

\* The output context's clock advances while it runs.
tick(s, ctx) == [s EXCEPT !.clock[ctx] = @ + 1]

\* A socket is there to deliver a message.
SocketDelivers == \E k \in Starts : conn[k] \in {"open", "closing"}

\* The delivered messages that carried audio.
AudioDelivered == SelectSeq(delivered, LAMBDA m : m.audio # NoAudio)

TextMessage ==
    /\ SocketDelivers
    /\ Len(delivered) < MaxDelivered
    /\ \E m \in TextMessages(Len(delivered) + 1) : Set(onmessage(S, m, FALSE))

AudioMessage ==
    /\ SocketDelivers
    /\ Len(AudioDelivered) < MaxChunks
    /\ outputAudioCtxRef # Null \/ outCtx[LazyCtx] = "none"
    /\ \E m \in AudioMessages(Len(delivered) + 1), suspended \in BOOLEAN :
           Set(onmessage(S, m, suspended))

ResumeSettled(ctx) ==
    /\ \E i \in 1..Len(awaiting) : awaiting[i].ctx = ctx
    /\ Set(resumeSettled(S, ctx))

BrowserSuspends(ctx) ==
    /\ outCtx[ctx] = "open"
    /\ nSuspends < MaxSuspends
    /\ Set(browserSuspends(S, ctx))

Tick(ctx) ==
    /\ outCtx[ctx] = "open"
    /\ clock[ctx] < MaxClock
    /\ Set(tick(S, ctx))

\* A session that has started and whose socket has opened.
Connected ==
    remoteOpen(
        afterGetUserMedia(
            startSession(Loaded("full", <<Provider("default-gemini", TRUE, 1, "key", 0)>>),
                         1, TRUE, FALSE),
            1, "ok"),
        1)

\* The transcript of a running session.
TranscriptInit == Is(Connected)

\* A click on "Pause" / "Resume" while the transcript is fed.
PauseNotice ==
    /\ nToggles < MaxNotices
    /\ TogglePause

TranscriptNext ==
    \/ TextMessage
    \/ PauseNotice

TranscriptSpec == TranscriptInit /\ [][TranscriptNext]_vars

\* The playback of a running session.
PlaybackInit == Is(Connected)

PlaybackNext ==
    \/ AudioMessage
    \/ \E ctx \in Ctxs : ResumeSettled(ctx)
    \/ \E ctx \in Ctxs : BrowserSuspends(ctx)
    \/ \E ctx \in Ctxs : Tick(ctx)

PlaybackSpec == PlaybackInit /\ [][PlaybackNext]_vars

\* ---------------------------------------------------- claims on the transcript
\* The step delivers a server message.
IsDelivery == Len(delivered') = Len(delivered) + 1

\* The message the step delivers.
Arriving == delivered'[Len(delivered')]

OnlyAiFragment(m) == m.output # "" /\ m.input = "" /\ ~m.turnComplete /\ m.audio = NoAudio
OnlyUserFragment(m) == m.input # "" /\ m.output = "" /\ ~m.turnComplete /\ m.audio = NoAudio
OnlyTurnComplete(m) == m.turnComplete /\ m.input = "" /\ m.output = "" /\ m.audio = NoAudio

\* The last message of the transcript is a partial message of that role.
LastIsPartial(msgs, type) ==
    msgs # <<>> /\ msgs[Len(msgs)].type = type /\ msgs[Len(msgs)].isPartial

\* C15: an AI fragment that follows AI fragments, with nothing else added to
\* the transcript in between, extends the one partial AI message by its text
\* (the first of them creates that message, partial); so the fragments of a run
\* make one partial AI message holding their texts in arrival order.  A
\* turn-complete marker that follows clears the partial flag of that message
\* and leaves its text alone.
C15_FragmentsAggregate ==
    [][IsDelivery =>
          /\ OnlyAiFragment(Arriving) =>
                IF LastIsPartial(messages, "AI")
                THEN messages' = [messages EXCEPT ![Len(messages)].content =
                                                       @ \o <<Arriving.output>>]
                ELSE messages' = Append(messages, Message("AI", <<Arriving.output>>, TRUE))
          /\ (OnlyTurnComplete(Arriving) /\ LastIsPartial(messages, "AI")) =>
                messages' = [messages EXCEPT ![Len(messages)].isPartial = FALSE]]_vars

\* Three AI fragments and a turn-complete marker have made one final AI message.
C15_Witness ==
    /\ Len(delivered) = 4 /\ OnlyTurnComplete(delivered[4])
    /\ \A i \in 1..3 : OnlyAiFragment(delivered[i])
    /\ messages = << Message("SYSTEM", <<TxtConnected>>, FALSE),
                     Message("AI", <<AiTexts[1], AiTexts[2], AiTexts[3]>>, FALSE) >>

\* The places of the partial messages of a role.
PartialOf(msgs, type) == { i \in 1..Len(msgs) : msgs[i].type = type /\ msgs[i].isPartial }

\* C16: no role ever has two partial messages, and a fragment for a role that
\* has a partial message extends that message and adds none, also when user and
\* AI fragments alternate.
C16_OnePartialPerRole ==
    [][/\ \A type \in {"USER", "AI", "SYSTEM"} : Cardinality(PartialOf(messages', type)) <= 1
       /\ (IsDelivery /\ OnlyAiFragment(Arriving) /\ PartialOf(messages, "AI") # {}) =>
              Len(messages') = Len(messages)
       /\ (IsDelivery /\ OnlyUserFragment(Arriving) /\ PartialOf(messages, "USER") # {}) =>
              Len(messages') = Len(messages)]_vars

\* C17: when the last message is of another role than the message before it,
\* the message before it is final.
C17_RoleChangeFinalizes ==
    Len(messages) >= 2 =>
        (messages[Len(messages)].type # messages[Len(messages) - 1].type =>
            ~messages[Len(messages) - 1].isPartial)

\* C18: a turn-complete marker clears the partial flag of the last message when
\* that is a partial USER message as when it is a partial AI message, and adds
\* no text.
C18_TurnCompleteFinalizesLastOpen ==
    [][(IsDelivery /\ OnlyTurnComplete(Arriving)
          /\ (LastIsPartial(messages, "USER") \/ LastIsPartial(messages, "AI"))) =>
             messages' = [messages EXCEPT ![Len(messages)].isPartial = FALSE]]_vars

\* ------------------------------------------------------ claims on the playback
\* When the chunk scheduled before the j-th one ends (0 before the first).
PreviousEnd(j) == IF j = 1 THEN 0 ELSE scheduled[j - 1].start + scheduled[j - 1].dur

\* C19: every chunk is scheduled at the later of the output clock's time at
\* the call and the end of the chunk scheduled before it, and nextStart is then
\* the end of that chunk; so no chunk starts before the previous one ends and
\* none starts before the current clock time.
C19_ScheduledAtMaxOfClockAndNextStart ==
    /\ \A j \in 1..Len(scheduled) :
          /\ scheduled[j].start = Max(scheduled[j].now, PreviousEnd(j))
          /\ scheduled[j].start >= PreviousEnd(j)
          /\ scheduled[j].start >= scheduled[j].now
    /\ nextStartTimeRef = (IF scheduled = <<>> THEN 0 ELSE PreviousEnd(Len(scheduled) + 1))

\* Three chunks: the second waits for the first to end, the third comes after
\* the second has ended.
C19_Witness ==
    /\ Len(scheduled) = 3
    /\ scheduled[2].now < PreviousEnd(2)
    /\ scheduled[3].now > PreviousEnd(3)

\* C20 (as stated): each chunk starts exactly where the chunk before it ends,
\* however much clock time passes between the calls.
C20_StartsAreCumulative ==
    \A j \in 2..Len(scheduled) : scheduled[j].start = PreviousEnd(j)

\* C20 (amended): each chunk starts exactly where the chunk before it ends,
\* however much clock time passes between the calls, as long as the clock has
\* not passed that end when the chunk is scheduled.
C20_StartsAreCumulativeWhileQueued ==
    \A j \in 2..Len(scheduled) :
        scheduled[j].now <= PreviousEnd(j) => scheduled[j].start = PreviousEnd(j)

\* Three chunks scheduled at three different clock times, back to back.
C20_Witness ==
    /\ Len(scheduled) = 3
    /\ scheduled[1].now < scheduled[2].now /\ scheduled[2].now < scheduled[3].now
    /\ scheduled[2].start = scheduled[1].start + scheduled[1].dur
    /\ scheduled[3].start = scheduled[1].start + scheduled[1].dur + scheduled[2].dur

\* C21: of two chunks that were scheduled, the one whose audio event was
\* delivered first starts earlier, also when its playAudioChunk call waited in
\* await ctx.resume().
C21_ScheduledInArrivalOrder ==
    \A a, b \in 1..Len(scheduled) :
        scheduled[a].chunk < scheduled[b].chunk => scheduled[a].start < scheduled[b].start

\* A chunk was scheduled after message handling had gone on past it.
Waited(j) == scheduled[j].after >= scheduled[j].chunk

\* Two chunks that both waited for the context to resume, and a third that was
\* scheduled in its own playAudioChunk call.
C21_Witness ==
    /\ Len(scheduled) = 3
    /\ Waited(1) /\ Waited(2) /\ ~Waited(3)
    /\ scheduled[1].chunk < scheduled[2].chunk /\ scheduled[2].chunk < scheduled[3].chunk

\* ------------------------------------------------- playback across sessions
\* A running session that plays audio, is stopped and started again.
RestartInit == Is(Connected)

\* A server message with audio that decodes.
RestartAudio ==
    /\ Len(AudioDelivered) < MaxReplayed
    /\ AudioMessage
    /\ Arriving.audio.payload = "pcm"

RestartTick(ctx) ==
    /\ clock[ctx] < MaxReplayClock
    /\ Tick(ctx)

RestartNext ==
    \/ RestartAudio
    \/ StopClick
    \/ StartSession
    \/ \E k \in Starts : ResumeDone(k)
    \/ \E k \in Starts : GetUserMediaDone(k)
    \/ \E k \in Starts : RemoteOpen(k)
    \/ \E ctx \in Ctxs : RestartTick(ctx)

RestartSpec == RestartInit /\ [][RestartNext]_vars

\* The first source.start call made on context ctx is the j-th call.
FirstOn(j, ctx) ==
    scheduled[j].ctx = ctx /\ \A i \in 1..(j - 1) : scheduled[i].ctx # ctx

\* C22: once stopSession has released the output context, nextStart is 0
\* again; and the first chunk a session schedules on its output context starts
\* at that context's clock time at the call.
C22_TeardownResetsClock ==
    /\ outputAudioCtxRef = Null => nextStartTimeRef = 0
    /\ \A j \in 1..Len(scheduled) : \A k \in Starts :
           FirstOn(j, k) => scheduled[j].start = scheduled[j].now

\* ------------------------------------------------ claims on transport errors
\* The step delivers the error event of socket k.
IsTransportError(k) == conn[k] \in {"connecting", "open"} /\ conn'[k] = "errored"

\* What onerror hands to onError for the errors the socket may carry.
FormattedTransportErrors == { formatError(e.status, e.msg) : e \in TransportErrors }

\* C23: the error event of a connecting or open socket records a formatted
\* message as a critical error, leaves the session inactive with its
\* connection told to disconnect, its microphone stopped and both its audio
\* contexts closed, and opens no connection and asks for no microphone.
C23_TransportErrorEndsSession ==
    [][\A k \in Starts :
          IsTransportError(k) =>
              /\ error' \in FormattedTransportErrors /\ isCriticalError'
              /\ ~isActive'
              /\ nDisconnect'[k] >= 1
              /\ stream'[k] # "live" /\ inCtx'[k] # "open" /\ outCtx'[k] # "open"
              /\ connectCalls' = connectCalls /\ gumCalls' = gumCalls
              /\ \A j \in Starts : conn[j] = "none" => conn'[j] = "none"]_vars

\* The step is the end of a startSession invocation that got its microphone
\* and whose connectLive found no provider to use.
ProviderSelectionFails(k) ==
    /\ pc[k] = "gum" /\ pc'[k] = "done"
    /\ stream[k] = "none" /\ stream'[k] # "none"
    /\ ~getClient(providers).ok

\* C24: when provider selection fails in connectLive, the error startSession
\* shows is the one getClient threw (no active provider, or no API key), not
\* the message of another category.
C24_ProviderErrorSurfaced ==
    [][\A k \in Starts :
          ProviderSelectionFails(k) =>
              /\ error' = getClient(providers).err
              /\ error' \notin {FmtRateLimit, FmtAuth, FmtServer, FmtNetwork, FmtBlocked,
                                FmtHardware}]_vars

\* ======================================================= error formatting
\* formatError applied to what a catch block or onerror got.
FormatInit ==
    \E e \in RawErrors :
        Is([Loaded("full", <<Provider("default-gemini", TRUE, 1, "key", 0)>>)
               EXCEPT !.rawError = e])

FormatError ==
    /\ formatted = NotFormatted
    /\ Set([S EXCEPT !.formatted = formatRawError(rawError)])

FormatNext == FormatError

FormatSpec == FormatInit /\ [][FormatNext]_vars

\* The categories in the order the claim gives them.
CategoryOrder == <<"rate-limit", "auth", "server", "network", "safety", "hardware">>

\* Whether an error of that status, whose message contains the blocks kw once
\* lowercased, is of the i-th category.
IsOfCategory(i, status, kw) ==
    CASE i = 1 -> status = 429 \/ AnyOf({"429", "quota", "resource exhausted"}, kw)
      [] i = 2 -> status \in {401, 403}
                    \/ AnyOf({"401", "403", "api key", "permission denied"}, kw)
      [] i = 3 -> status >= 500 \/ AnyOf({"500", "503", "internal error", "overloaded"}, kw)
      [] i = 4 -> AnyOf({"fetch failed", "network", "failed to fetch", "offline",
                         "load failed"}, kw)
      [] i = 5 -> AnyOf({"safety", "blocked", "finishreason"}, kw)
      [] i = 6 -> AnyOf({"audiocontext", "mediadevices", "notallowederror"}, kw)

\* txt can be had from whole by leaving blocks out.
RECURSIVE IsSubsequence(_, _)
IsSubsequence(txt, whole) ==
    IF txt = <<>> THEN TRUE
    ELSE IF whole = <<>> THEN FALSE
    ELSE IF Head(txt) = Head(whole) THEN IsSubsequence(Tail(txt), Tail(whole))
    ELSE IsSubsequence(txt, Tail(whole))

\* C25: formatError returns the message of the first category, in the order
\* rate-limit, auth, server-unavailable, network, safety-block, hardware, that
\* the error's status or message matches; the six messages differ from one
\* another; an error that matches no category gets the generic format, whose
\* text is at most 150 characters taken in order from the original message.
C25_FormatErrorClassifies ==
    formatted # NotFormatted =>
        LET status == StatusOf(rawError)
            kw == Includes(MsgOf(rawError))
        IN /\ \A i \in 1..6 :
                  (IsOfCategory(i, status, kw) /\ \A j \in 1..(i - 1) : ~IsOfCategory(j, status, kw))
                      => formatted = [category |-> CategoryOrder[i],
                                      text |-> <<Friendly(CategoryOrder[i])>>]
           /\ \A i, j \in 1..6 :
                  i # j => Friendly(CategoryOrder[i]) # Friendly(CategoryOrder[j])
           /\ (\A i \in 1..6 : ~IsOfCategory(i, status, kw)) =>
                  /\ formatted.category = "generic"
                  /\ Len(formatted.text) * BlockChars <= SliceChars
                  /\ IsSubsequence(formatted.text, MsgOf(rawError))

\* An error whose message matches the rate-limit, the auth and the network
\* category got the rate-limit message.
C25_Witness ==
    /\ formatted = [category |-> "rate-limit", text |-> <<FmtRateLimit>>]
    /\ StatusOf(rawError) = 0
    /\ {"quota", "api key", "network"} \subseteq Includes(MsgOf(rawError))

\* ======================================================= outbound frames
\* Sessions that start, capture and send audio and are stopped, while the
\* network neither fails nor closes the socket.
OutboundInit == Is(Loaded("full", <<Provider("default-gemini", TRUE, 1, "key", 0)>>))

OutboundNext ==
    \/ StartSession
    \/ StopClick
    \/ \E k \in Starts : ResumeDone(k)
    \/ \E k \in Starts : GetUserMediaDone(k)
    \/ \E k \in Starts : AudioProcess(k)
    \/ \E k \in Starts : RemoteOpen(k)

OutboundSpec == OutboundInit /\ [][OutboundNext]_vars

\* ------------------------------------------------ claims on outbound frames
\* C26: on every connection sendRealtimeInput is called for the frames in the
\* order they were captured and handed to sendAudio, the frames handed over
\* before the session promise resolved included.
C26_FramesSentInCaptureOrder ==
    \A k \in Starts : \A i, j \in 1..Len(wire[k]) :
        i < j => wire[k][i].frame < wire[k][j].frame

\* Two frames were handed over while the socket was connecting, and sent in
\* their order once it had opened.
C26_Witness ==
    \E k \in Starts :
        /\ Len(frames) = 2 /\ frames[1].early /\ frames[2].early
        /\ Len(wire[k]) = 2 /\ wire[k][1].frame = 1 /\ wire[k][2].frame = 2

\* The frames that were handed to sendAudio of connection k and wait to be
\* passed to sendRealtimeInput.
PendingFrames(k) == SelectSeq(thens[k], LAMBDA cb : cb.op = "send")

\* C27: at most one captured frame is pending at any moment, also while the
\* socket is connecting.
C27_AtMostOneFramePending ==
    \A k \in Starts : Len(PendingFrames(k)) <= 1

\* ------------------------------------------- claims on malformed payloads
\* The audio payload of a server message does not decode.
Malformed(m) == m.audio.payload \in {"badBase64", "oddBytes"}

\* C28: a chunk that does not decode (bad base64, or an odd number of bytes)
\* is never scheduled; the message that carries it, and the resumption of its
\* playAudioChunk call, leave nextStart, the transcript, isActive, the error
\* state and the connection as they were; nextStart moves only when a chunk is
\* scheduled.
C28_MalformedChunkDropped ==
    /\ [](\A j \in 1..Len(scheduled) : ~Malformed(delivered[scheduled[j].chunk]))
    /\ [][(IsDelivery /\ Malformed(Arriving)) =>
              UNCHANGED << scheduled, nextStartTimeRef, messages, isActive, isPaused,
                           error, isCriticalError, conn, sendAudioRef, disconnectRef >>]_vars
    /\ [][(nextStartTimeRef' # nextStartTimeRef) => (Len(scheduled') > Len(scheduled))]_vars

\* Two chunks that did not decode, one of which waited for the suspended
\* context to resume, and then a chunk that was scheduled in its own call at
\* the clock's time, with the session active and its socket open.
C28_Witness ==
    /\ Len(delivered) = 3 /\ awaiting = <<>> /\ nSuspends = 1 /\ outCtx[1] = "open"
    /\ delivered[1].audio.payload = "oddBytes" /\ delivered[2].audio.payload = "badBase64"
    /\ Len(scheduled) = 1 /\ scheduled[1].chunk = 3 /\ scheduled[1].start = scheduled[1].now
    /\ ~Waited(1)
    /\ isActive /\ error = NoError /\ \E k \in Starts : conn[k] = "open"

\* ================================================================ teardown
\* Sessions that start, connect, fail and are stopped; no audio is captured.
TeardownInit == Is(Loaded("full", <<Provider("default-gemini", TRUE, 1, "key", 0)>>))

TeardownNext ==
    \/ StartSession
    \/ StopClick
    \/ \E k \in Starts : ResumeDone(k)
    \/ \E k \in Starts : GetUserMediaDone(k)
    \/ \E k \in Starts : RemoteOpen(k)
    \/ \E k \in Starts : RemoteError(k)
    \/ \E k \in Starts : RemoteClose(k)

TeardownSpec == TeardownInit /\ [][TeardownNext]_vars

\* In this step stopSession called close() on the input context of invocation
\* k, which was closed already: the promise it returns is rejected.
InputCloseFails(k) == nInClose'[k] > nInClose[k] /\ inCtx[k] = "closed"

\* In this step stopSession called disconnect() on connection k, whose session
\* promise is rejected because the socket failed before it opened.
DisconnectFails(k) == nDisconnect'[k] > nDisconnect[k] /\ conn'[k] = "errored" /\ ~resolved'[k]

\* After this step the flags are reset and what the refs point at is released.
TeardownRanToItsEnd ==
    /\ ~isActive' /\ ~isPaused' /\ ~isPausedRef'
    /\ sendAudioRef' = Null /\ processorRef' = Null
    /\ outputAudioCtxRef' = Null
    /\ \A c \in Ctxs : nOutClose'[c] > nOutClose[c] => outCtx'[c] = "closed"
    /\ streamRef' # Null => stream'[streamRef'] = "ended" /\ nTrackStop'[streamRef'] > nTrackStop[streamRef']
    /\ audioContextRef' # Null => nInClose'[audioContextRef'] > nInClose[audioContextRef']

\* C29: when a step of stopSession fails (the disconnect of a connection that
\* failed to open, the close of an input context that is closed already), the
\* steps after it are still carried out: the microphone tracks are stopped,
\* the contexts closed, the output context released and the flags reset.
C29_TeardownBestEffort ==
    [][\A k \in Starts :
          (InputCloseFails(k) \/ DisconnectFails(k)) => TeardownRanToItsEnd]_vars

\* A session was stopped; the start that followed failed after it had made its
\* output context, and its teardown closed that context although closing the
\* first session's input context failed.
C29_Witness ==
    \E k, j \in Starts :
        /\ k # j /\ nInClose[k] = 2 /\ audioContextRef = k
        /\ outCtx[j] = "closed" /\ nOutClose[j] = 1 /\ outputAudioCtxRef = Null
        /\ ~isActive /\ sendAudioRef = Null

\* ---------------------------------------------- claims on empty messages
\* A server message with none of the four fields.
EmptyMessage == ServerMessage("", "", FALSE, NoAudio)

\* C30: a server message that carries no user fragment, no AI fragment, no
\* turn-complete marker and no audio changes nothing: not the transcript, not
\* the playback clock and what was scheduled, not the output context, not the
\* session's flags, error state and connection.
C30_EmptyMessageIsNoOp ==
    [][(IsDelivery /\ Arriving = EmptyMessage) =>
          UNCHANGED << messages, nextStartTimeRef, scheduled, awaiting, outputAudioCtxRef,
                       outCtx, isActive, isPaused, isPausedRef, error, isCriticalError,
                       conn, sendAudioRef, disconnectRef >>]_vars

\* An empty message came between two AI fragments, which made one partial
\* message.
C30_Witness ==
    /\ Len(delivered) = 3 /\ delivered[2] = EmptyMessage
    /\ OnlyAiFragment(delivered[1]) /\ OnlyAiFragment(delivered[3])
    /\ messages[Len(messages)] = Message("AI", <<AiTexts[1], AiTexts[3]>>, TRUE)

\* ============================================================ text calls
\* withRetry and its two callers, parseResume and generateContextualAnswer
\* (src/unnamed/part_002), with the components that call them.

\* withRetry's default number of attempts, and its first delay in milliseconds.
DefaultRetries == 3
BaseDelay == 1000

\* the largest number of attempts withRetry is asked for
MaxRetries == 3

\* What client.models.generateContent settles with: a response and its text
\* ("" when it has none), or an error with its status, its response.status
\* (0 for neither) and its message.
Response(text) == [ok |-> TRUE, status |-> 0, responseStatus |-> 0, message |-> text]
OpError(status, responseStatus, message) ==
    [ok |-> FALSE, status |-> status, responseStatus |-> responseStatus, message |-> message]

\* `throw lastError` when nothing was caught.
Undefined == OpError(0, 0, "<undefined>")
\* No value yet.
NotSettled == OpError(0, 0, "<pending>")

Responses == { Response(text) : text \in {"", "plain", "json"} }

OperationErrors ==
    { OpError(503, 0, "Service unavailable"), OpError(0, 429, "Too many requests"),
      OpError(0, 0, "Network error"), OpError(0, 0, "fetch failed"),
      OpError(0, 0, "The model is overloaded"),
      OpError(500, 0, "Internal error"), OpError(0, 0, "Bad request"),
      OpError(401, 0, "Unauthorized") }

Outcomes == Responses \cup OperationErrors

\* The outcomes drawn for the calls the components make.
ComponentOutcomes ==
    { Response("json"), Response(""), OpError(503, 0, "Service unavailable"),
      OpError(0, 0, "Bad request") }

\* error.status || error.response?.status
StatusOfError(e) == IF e.status # 0 THEN e.status ELSE e.responseStatus

\* isTransient, had every server error (5xx) been taken for transient.
isTransientForServerErrors(e) ==
    \/ StatusOfError(e) >= 500
    \/ StatusOfError(e) = 429
    \/ AnyOf({"network", "fetch failed", "overloaded"}, Keywords(e.message))

\* withRetry's isTransient.
isTransient(e) ==
    \/ StatusOfError(e) = 503
    \/ StatusOfError(e) = 429
    \/ AnyOf({"network", "fetch failed", "overloaded"}, Keywords(e.message))

\* A call: of withRetry alone, or of parseResume or generateContextualAnswer,
\* which call withRetry.  pc is where it stands: "new", "read" (await
\* fileToBase64), "op" (await operation()), "delay" (await setTimeout),
\* "returned", "threw", and for a caller that did not get to withRetry
\* "noClient", "unread".  invoked counts the calls of operation(), caught holds
\* the errors withRetry caught, delays the delays it waited for, settled what
\* withRetry returned or threw, result whether the caller's promise is
\* "pending", "resolved" or "rejected", shown the text it resolved with or the
\* message it rejected with, primary the provider getClient chose.
Call(fn, retries) ==
    [fn |-> fn, pc |-> "new", retries |-> retries, i |-> 0, invoked |-> 0,
     caught |-> <<>>, delays |-> <<>>, settled |-> NotSettled, result |-> "pending",
     shown |-> "", primary |-> ""]

\* The for loop's test, and `return await operation()` when it passes;
\* `throw lastError` after the loop when it does not.
loopTest(c) ==
    IF c.i < c.retries THEN [c EXCEPT !.pc = "op", !.invoked = @ + 1]
    ELSE [c EXCEPT !.pc = "threw",
                   !.settled = IF c.caught = <<>> THEN Undefined ELSE c.caught[Len(c.caught)]]

\* withRetry, to its first await.
withRetry(c) == loopTest([c EXCEPT !.i = 0])

\* operationSettled, had the catch block not looked at the attempt's number.
operationSettledNotCounting(c, o) ==
    IF o.ok THEN [c EXCEPT !.pc = "returned", !.settled = o]
    ELSE LET c1 == [c EXCEPT !.caught = Append(@, o)]
         IN IF ~isTransient(o)
            THEN [c1 EXCEPT !.pc = "threw", !.settled = o]
            ELSE [c1 EXCEPT !.pc = "delay", !.delays = Append(@, BaseDelay * (2 ^ c.i))]

\* withRetry after operation() has settled with o: it returns the response,
\* rethrows the error, or starts the delay before the next attempt.
operationSettled(c, o) ==
    IF o.ok THEN [c EXCEPT !.pc = "returned", !.settled = o]
    ELSE LET c1 == [c EXCEPT !.caught = Append(@, o)]
         IN IF ~isTransient(o) \/ c.i = c.retries - 1
            THEN [c1 EXCEPT !.pc = "threw", !.settled = o]
            ELSE [c1 EXCEPT !.pc = "delay", !.delays = Append(@, BaseDelay * (2 ^ c.i))]

\* withRetry after the delay: i++ and the loop's test.
timerFired(c) == loopTest([c EXCEPT !.i = @ + 1])

\* ------------------------------------------------------------ the callers
\* manual questions and uploads in one behaviour
MaxAsks == 2
MaxUploads == 1

TxtUploadFirst == "Please upload a resume first for contextual answers."
TxtNoAnswer == "Could not generate answer."
ErrEmptyResponse == "Received empty response from Gemini"
ErrParse == "Failed to parse AI response. Please ensure the document is clear."
ErrFileRead == "File could not be read"
UiInvalidType == "Invalid file type. Please upload a PDF, DOCX, or TXT file."

\* The text of the n-th manual question.
ManualTexts == <<"q1", "q2", "q3", "q4">>
\* What the input holds when the n-th question is asked: nothing, blanks, or text.
Questions(n) == {"", " ", ManualTexts[n]}

\* `await this.getClient()` at the start of parseResume and
\* generateContextualAnswer: the call is added, rejected already when getClient
\* throws (the catch block formats the message).
acquireClient(s, fn) ==
    LET gc == getClient(s.providers)
        s1 == [s EXCEPT !.providers = gc.providers,
                        !.persisted = IF gc.saved THEN gc.providers ELSE @]
        c == [Call(fn, DefaultRetries) EXCEPT !.primary = gc.primary]
    IN IF gc.ok THEN [s1 EXCEPT !.calls = Append(@, c)]
       ELSE [s1 EXCEPT !.calls = Append(@, [c EXCEPT !.pc = "noClient",
                                                    !.result = "rejected",
                                                    !.shown = formatError(0, gc.err)])]

\* The catch block of parseResume and generateContextualAnswer.
rejectCall(s, n, status, msg) ==
    [s EXCEPT !.calls[n].result = "rejected", !.calls[n].shown = formatError(status, msg)]

\* generateContextualAnswer once withRetry has returned or thrown.
answerGenerated(s, n) ==
    LET c == s.calls[n]
    IN IF c.pc = "returned"
       THEN [s EXCEPT !.calls[n].result = "resolved",
                      !.calls[n].shown = IF c.settled.message # "" THEN c.settled.message
                                         ELSE TxtNoAnswer]
       ELSE rejectCall(s, n, StatusOfError(c.settled), c.settled.message)

\* handleManualAsk after `await generateContextualAnswer(..)`.
afterAnswer(s, n) ==
    LET c == s.calls[n]
        s1 == IF c.result = "resolved"
              THEN [s EXCEPT !.messages = addMessage(@, c.shown, "AI", FALSE)]
              ELSE [s EXCEPT !.error = c.shown]
    IN [s1 EXCEPT !.isGeneratingText = FALSE]

\* handleManualAsk with q in the input, to its first await that ends a task.
handleManualAsk(s, q) ==
    IF Trim(q) = "" THEN s
    ELSE LET s1 == [s EXCEPT !.messages = addMessage(@, q, "USER", FALSE),
                             !.error = NoError,
                             !.nAsks = @ + 1]
         IN IF s1.resume # Null
            THEN LET s2 == acquireClient([s1 EXCEPT !.isGeneratingText = TRUE],
                                         "generateContextualAnswer")
                     n == Len(s2.calls)
                 IN IF s2.calls[n].result = "rejected" THEN afterAnswer(s2, n)
                    ELSE [s2 EXCEPT !.calls[n] = withRetry(@)]
            ELSE [s1 EXCEPT !.messages = addMessage(@, TxtUploadFirst, "SYSTEM", FALSE)]

\* parseResume once withRetry has returned or thrown: a response without
\* text, or whose text is not JSON, is an error too.
resumeParsed(s, n) ==
    LET c == s.calls[n]
    IN IF c.pc = "returned"
       THEN IF c.settled.message = "" THEN rejectCall(s, n, 0, ErrEmptyResponse)
            ELSE IF c.settled.message # "json" THEN rejectCall(s, n, 0, ErrParse)
            ELSE [s EXCEPT !.calls[n].result = "resolved", !.calls[n].shown = "resume"]
       ELSE rejectCall(s, n, StatusOfError(c.settled), c.settled.message)

\* handleFileChange after `await parseResume(file)`.
afterParse(s, n) ==
    LET c == s.calls[n]
        s1 == IF c.result = "resolved"
              THEN [s EXCEPT !.uploader.fileName = c.shown, !.resume = n]
              ELSE [s EXCEPT !.uploader.error = c.shown]
    IN [s1 EXCEPT !.uploader.isUploading = FALSE]

\* handleFileChange for a chosen file, to its first await that ends a task.
handleFileChange(s, validType) ==
    LET s1 == [s EXCEPT !.uploader.error = NoError, !.uploader.fileName = ""]
    IN IF ~validType THEN [s1 EXCEPT !.uploader.error = UiInvalidType]
       ELSE LET s2 == acquireClient([s1 EXCEPT !.uploader.isUploading = TRUE], "parseResume")
                n == Len(s2.calls)
            IN IF s2.calls[n].result = "rejected" THEN afterParse(s2, n)
               ELSE [s2 EXCEPT !.calls[n].pc = "read"]

\* fileToBase64 settles: parseResume goes on to withRetry, or to its catch block.
fileRead(s, n, ok) ==
    IF ok THEN [s EXCEPT !.calls[n] = withRetry(@)]
    ELSE afterParse(rejectCall([s EXCEPT !.calls[n].pc = "unread"], n, 0, ErrFileRead), n)

\* afterWithRetry, had the client been acquired anew for every further attempt.
afterWithRetryAcquiringAgain(s, n) ==
    IF s.calls[n].pc = "op"
    THEN LET gc == getClient(s.providers)
         IN [s EXCEPT !.providers = gc.providers,
                      !.persisted = IF gc.saved THEN gc.providers ELSE @]
    ELSE IF s.calls[n].pc \notin {"returned", "threw"} THEN s
    ELSE IF s.calls[n].fn = "generateContextualAnswer" THEN afterAnswer(answerGenerated(s, n), n)
    ELSE IF s.calls[n].fn = "parseResume" THEN afterParse(resumeParsed(s, n), n)
    ELSE [s EXCEPT !.calls[n].result = IF s.calls[n].pc = "returned" THEN "resolved"
                                       ELSE "rejected"]

\* What follows in the same task once withRetry has returned or thrown.
afterWithRetry(s, n) ==
    IF s.calls[n].pc \notin {"returned", "threw"} THEN s
    ELSE IF s.calls[n].fn = "generateContextualAnswer" THEN afterAnswer(answerGenerated(s, n), n)
    ELSE IF s.calls[n].fn = "parseResume" THEN afterParse(resumeParsed(s, n), n)
    ELSE [s EXCEPT !.calls[n].result = IF s.calls[n].pc = "returned" THEN "resolved"
                                       ELSE "rejected"]

\* A click on Dismiss: setError(null).
dismiss(s) == [s EXCEPT !.error = NoError, !.nDismiss = @ + 1]

\* The outcomes drawn for a call: every one for withRetry alone.
OutcomesFor(c) == IF c.fn = "withRetry" THEN Outcomes ELSE ComponentOutcomes

WithRetry(n) ==
    /\ calls[n].pc = "new"
    /\ Set([S EXCEPT !.calls[n] = withRetry(@)])

\* The task in which operation() settles with o.
operationSettles(s, n, o) == afterWithRetry([s EXCEPT !.calls[n] = operationSettled(@, o)], n)

\* operation() settles.
OperationSettles(n) ==
    /\ calls[n].pc = "op"
    /\ \E o \in OutcomesFor(calls[n]) : Set(operationSettles(S, n, o))

\* The timer of the delay fires.
TimerFires(n) ==
    /\ calls[n].pc = "delay"
    /\ Set(afterWithRetry([S EXCEPT !.calls[n] = timerFired(@)], n))

\* fileToBase64 settles.
FileRead(n) ==
    /\ calls[n].pc = "read"
    /\ \E ok \in BOOLEAN : Set(fileRead(S, n, ok))

\* A file is chosen; the input is disabled while an upload is under way.
HandleFileChange ==
    /\ ~uploader.isUploading
    /\ Len(SelectSeq(calls, LAMBDA c : c.fn = "parseResume")) < MaxUploads
    /\ \E validType \in BOOLEAN : Set(handleFileChange(S, validType))

\* Enter in the question input, or a click on Ask AI.
ManualAsk ==
    /\ nAsks < MaxAsks
    /\ \E q \in Questions(nAsks + 1) : Set(handleManualAsk(S, q))

\* Dismiss is rendered while there is an error.
Dismiss ==
    /\ error # NoError
    /\ Set(dismiss(S))

\* --------------------------------------------------------- withRetry alone
RetryInit ==
    \E retries \in 0..MaxRetries :
        Is([Loaded("full", <<Provider("default-gemini", TRUE, 1, "key", 0)>>)
               EXCEPT !.calls = <<Call("withRetry", retries)>>])

RetryNext ==
    \/ \E n \in 1..Len(calls) : WithRetry(n)
    \/ \E n \in 1..Len(calls) : OperationSettles(n)
    \/ \E n \in 1..Len(calls) : TimerFires(n)

RetrySpec == RetryInit /\ [][RetryNext]_vars

\* The operation settles and the timer fires.
FairRetrySpec ==
    /\ RetrySpec
    /\ WF_vars(\E n \in 1..Len(calls) : WithRetry(n))
    /\ WF_vars(\E n \in 1..Len(calls) : OperationSettles(n))
    /\ WF_vars(\E n \in 1..Len(calls) : TimerFires(n))

\* ------------------------------------------------- uploads and questions
\* The interview page before a session is started: a resume is uploaded and
\* questions are typed.
ServiceInit == \E ps \in InitProviderLists : Is(Loaded("full", ps))

ServiceNext ==
    \/ HandleFileChange
    \/ ManualAsk
    \/ \E n \in 1..Len(calls) : FileRead(n)
    \/ \E n \in 1..Len(calls) : OperationSettles(n)
    \/ \E n \in 1..Len(calls) : TimerFires(n)

ServiceSpec == ServiceInit /\ [][ServiceNext]_vars

\* ------------------------------------------------------- the conversation
\* server messages delivered while questions are typed
MaxHeard == 2

\* A resume has been uploaded and parsed at the first attempt.
Uploaded ==
    operationSettles(
        fileRead(
            handleFileChange(Loaded("full", <<Provider("default-gemini", TRUE, 1, "key", 0)>>),
                             TRUE),
            1, TRUE),
        1, Response("json"))

\* A session that has started, with the resume uploaded, and whose socket has
\* opened.
ConnectedWithResume ==
    remoteOpen(afterGetUserMedia(startSession(Uploaded, 1, TRUE, FALSE), 1, "ok"), 1)

\* A running session, with or without a resume, in which questions are typed
\* while the transcript is fed, until the session ends.
ConversationInit == Is(Connected) \/ Is(ConnectedWithResume)

Heard ==
    /\ Len(delivered) < MaxHeard
    /\ TextMessage

\* questions typed in one conversation
MaxTyped == 1

Typed ==
    /\ nAsks < MaxTyped
    /\ ManualAsk

ConversationNext ==
    \/ Heard
    \/ PauseNotice
    \/ Typed
    \/ Dismiss
    \/ StopClick
    \/ \E n \in 1..Len(calls) : OperationSettles(n)
    \/ \E n \in 1..Len(calls) : TimerFires(n)
    \/ \E k \in Starts : RemoteError(k)
    \/ \E k \in Starts : RemoteClose(k)

ConversationSpec == ConversationInit /\ [][ConversationNext]_vars

\* ------------------------------------------- claims on the order of a start
\* The step ends startSession invocation k because getClient found no
\* provider to use: the error shown is what connectLive made of its message.
StartFailsForProvider(k) ==
    /\ pc[k] # "done" /\ pc'[k] = "done"
    /\ ~getClient(providers).ok
    /\ conn'[k] = "none"
    /\ error' = formatError(0, getClient(providers).err)

\* C31: a start that fails because provider selection fails (no active
\* provider, or no key) has not acquired the microphone stream: the credential
\* is asked for before the microphone.
C31_CredentialBeforeMicrophone ==
    [][\A k \in Starts :
          StartFailsForProvider(k) => (stream'[k] = "none" /\ nTrackStop'[k] = 0)]_vars

\* ------------------------------------------------ claims on the paused flag
\* C36: whenever the session is not active (after stopSession, a remote
\* close, a remote error or a failed start), isPaused and isPausedRef are
\* false.
C36_PausedOnlyWhileActive == ~isActive => (~isPaused /\ ~isPausedRef)

\* ---------------------------------------------- claims on audio after a stop
\* The step delivers a server message with audio while no output context is
\* held: stopSession has released it and no startSession has made another.
IsAudioAfterStop ==
    /\ IsDelivery /\ Arriving.audio # NoAudio
    /\ outputAudioCtxRef = Null
    /\ \E c \in Ctxs : nOutClose[c] >= 1

\* C37: an audio chunk delivered after stopSession, before the next
\* startSession, creates no output context, schedules no buffer and leaves
\* nextStart alone.
C37_NoPlaybackAfterStop ==
    [][IsAudioAfterStop =>
          UNCHANGED << outputAudioCtxRef, outCtx, scheduled, awaiting, nextStartTimeRef >>]_vars

\* ------------------------------------------------- claims on provider ids
\* No id occurs twice in the list.
UniqueIds(ps) == \A i, j \in 1..Len(ps) : ps[i].id = ps[j].id => i = j

\* The step is a click on Save that reaches saveProvider.
IsSave ==
    /\ nAdmin' # nAdmin /\ editingId # "" /\ editingId' = ""
    /\ formData.name # "" /\ formData.apiKey # "" /\ formData' = EmptyForm

\* The step is a confirmed click on Delete.
IsDelete == nAdmin' # nAdmin /\ Len(persisted') < Len(providers)

\* C40: the stored provider list never holds an id twice; saveProvider with
\* an id that is stored replaces that entry where it stands and changes no
\* other, with a new id it appends one entry; deleteProvider removes the
\* entries of the given id and no other.
C40_ProviderIdsUnique ==
    /\ [](UniqueIds(providers) /\ UniqueIds(persisted))
    /\ [][IsSave =>
             IF \E i \in 1..Len(providers) : providers[i].id = formData.id
             THEN /\ Len(persisted') = Len(providers)
                  /\ \A i \in 1..Len(providers) :
                         persisted'[i] = IF providers[i].id = formData.id
                                         THEN formData ELSE providers[i]
             ELSE persisted' = Append(providers, formData)]_vars
    /\ [][IsDelete =>
             \E id \in {providers[i].id : i \in 1..Len(providers)} :
                 /\ \A j \in 1..Len(persisted') : persisted'[j].id # id
                 /\ persisted' = SelectSeq(providers, LAMBDA q : q.id # id)]_vars

\* Of two stored providers one was renamed and saved over its entry, the other
\* deleted.
C40_Witness ==
    /\ nAdmin = 4 /\ Len(registered) = 1
    /\ Len(persisted) = 1 /\ persisted[1].id = registered[1] /\ persisted[1].name = "Renamed"
    /\ providers = persisted

\* ------------------------------------------------------ claims on withRetry
\* The call has come to its end.
Finished(c) == c.pc \in {"returned", "threw"}

TransientAsClaimed(e) ==
    \/ e.status \in {503, 429} \/ (e.status = 0 /\ e.responseStatus \in {503, 429})
    \/ e.message \in {"Network error", "fetch failed", "The model is overloaded"}

\* C34: the j-th error withRetry caught is followed by a delay of 1s * 2^(j-1)
\* and another attempt when it is transient and attempts are left, and is
\* rethrown at once otherwise (a non-transient first error after one attempt
\* and no delay); a response is returned with no further attempt.
C34_RetriesOnlyTransient ==
    \A n \in 1..Len(calls) :
        LET c == calls[n]
        IN /\ \A j \in 1..Len(c.caught) :
                  IF TransientAsClaimed(c.caught[j]) /\ j < c.retries
                  THEN /\ Len(c.delays) >= j /\ c.delays[j] = BaseDelay * (2 ^ (j - 1))
                       /\ c.invoked >= j
                       /\ (c.pc = "threw" => c.settled # c.caught[j] \/ j < Len(c.caught))
                  ELSE /\ j = Len(c.caught) /\ c.pc = "threw" /\ c.settled = c.caught[j]
                       /\ c.invoked = j /\ Len(c.delays) = j - 1
           /\ Len(c.delays) <= Len(c.caught)
           /\ c.pc = "returned" =>
                  /\ c.settled.ok /\ c.invoked = Len(c.caught) + 1
                  /\ Len(c.delays) = Len(c.caught)
           /\ c.pc = "op" => c.invoked = Len(c.caught) + 1
           /\ c.pc = "delay" => c.invoked = Len(c.caught)

\* A response came at the third attempt, after delays of 1s and 2s.
C34_Witness ==
    \E n \in 1..Len(calls) :
        /\ calls[n].pc = "returned" /\ calls[n].invoked = 3
        /\ calls[n].delays = <<1000, 2000>>
        /\ calls[n].caught = <<OpError(503, 0, "Service unavailable"),
                               OpError(0, 0, "Network error")>>

\* ------------------------------------------------ claims on usage counting
\* The calls of parseResume and generateContextualAnswer that acquired the
\* provider of that id.
CallsThatAcquired(id) == { n \in 1..Len(calls) : calls[n].primary = id }

\* C35: every call of parseResume or generateContextualAnswer that acquired
\* a client has added one to the usage counter of the provider it selected, in
\* memory and in the store, whether it is under way, has succeeded or has
\* failed; the attempts and delays of withRetry change no counter.
C35_UsageCountedOncePerCall ==
    /\ [](\A i \in 1..Len(providers) :
             /\ providers[i].usageCount = Cardinality(CallsThatAcquired(providers[i].id))
             /\ \E j \in 1..Len(persisted) :
                    /\ persisted[j].id = providers[i].id
                    /\ persisted[j].usageCount = providers[i].usageCount)
    /\ [][Len(calls') = Len(calls) => UNCHANGED << providers, persisted >>]_vars

\* An upload that succeeded at its second attempt and a question that failed
\* after three: the provider was used twice.
C35_Witness ==
    /\ Len(calls) = 2
    /\ calls[1].fn = "parseResume" /\ calls[1].result = "resolved" /\ calls[1].invoked = 2
    /\ calls[2].fn = "generateContextualAnswer" /\ calls[2].result = "rejected"
    /\ calls[2].invoked = 3
    /\ \E i \in 1..Len(providers) :
           providers[i].id = calls[1].primary /\ providers[i].usageCount = 2

\* ------------------------------------------------ claims on the error display
\* C32: while a critical error is displayed, no step other than a click on
\* Dismiss (a manual question, a pause or resume, a server message, a remote
\* close) empties the error state.
C32_CriticalErrorStaysUntilDismissed ==
    [][(error # NoError /\ isCriticalError /\ nDismiss' = nDismiss) => error' # NoError]_vars

\* ------------------------------------------ claims on the transcript as a log
\* The sequence a is a beginning of the sequence b.
IsPrefix(a, b) == Len(a) <= Len(b) /\ SubSeq(b, 1, Len(a)) = a

\* C38: no step removes or reorders a message or changes a message that is
\* final; a partial message keeps its place and its role, and its content only
\* grows at its end.
C38_FinalMessagesImmutable ==
    [][/\ Len(messages') >= Len(messages)
       /\ \A i \in 1..Len(messages) :
              IF messages[i].isPartial
              THEN /\ messages'[i].type = messages[i].type
                   /\ IsPrefix(messages[i].content, messages'[i].content)
              ELSE messages'[i] = messages[i]]_vars

\* An AI message was finalized by its turn-complete marker; a manual question,
\* its answer and the end of the session came after it.
C38_Witness ==
    /\ Len(messages) = 5 /\ nAsks = 1
    /\ messages[2] = Message("AI", <<AiTexts[1]>>, FALSE)
    /\ messages[3] = Message("USER", <<ManualTexts[1]>>, FALSE)
    /\ messages[4] = Message("AI", <<"json">>, FALSE)
    /\ messages[5] = Message("SYSTEM", <<TxtEnded>>, FALSE)

\* C39: a manual question is added to the transcript as a new final USER
\* message holding the typed text, whatever the last message is.
C39_ManualQuestionIsOwnMessage ==
    [][nAsks' # nAsks =>
          /\ Len(messages') > Len(messages)
          /\ messages'[Len(messages) + 1] = Message("USER", <<ManualTexts[nAsks']>>, FALSE)
          /\ \A i \in 1..Len(messages) : messages'[i] = messages[i]]_vars

====
